---- MODULE Spec2Model ----
(***************************************************************************)
(* A model of the BLAKE3 implementation of rotkonetworks/blake3-js:        *)
(* the pure-JS backend (src/blake3.ts), the synchronous backends of       *)
(* src/blake3-workers.ts (the workers module's hash and hashWasmSimd) and  *)
(* its worker pool (hashWorkers).                                          *)
(*                                                                         *)
(* Words are modelled as JavaScript int32 values (the code normalises      *)
(* every word with "| 0"); a Uint32Array element holds the same 32 bits.   *)
(* All arithmetic is done on 16-bit halves so that no intermediate value   *)
(* leaves the 32-bit range.                                                *)
(***************************************************************************)
EXTENDS Integers, Sequences, FiniteSets, TLC

VARIABLES
    pc,                 \* "ready": a call is pending; "awaiting": it awaits its workers; "done": it is over
    call,               \* the pending / last call: function name and arguments
    IS_LITTLE_ENDIAN,   \* host byte order (src/blake3.ts:32)
    simdSupported,      \* what WebAssembly.validate answers on this host
    wasmInstance,       \* TRUE once the WASM module is instantiated (blake3-workers.ts:993)
    compress4x,         \* TRUE once initWasmSimd has set the kernel (blake3-workers.ts:995)
    blockWordsBuffer,   \* module-level scratch buffer (src/blake3.ts:35)
    calls,              \* the compress calls made by the call, in order
    tree,               \* the chunks under each stack entry after each chunk, and under each merge
    result,             \* the bytes returned, <<>> before the return
    error,              \* the message of the error thrown, "" if none
    workers,            \* workers.length, the size of the pool (blake3-workers.ts:263)
    numWorkers,         \* let numWorkers (blake3-workers.ts:265), what getWorkerCount returns
    inbox,              \* per worker, the messages posted to it and not yet handled
    outbox,             \* per worker, the replies it posted, not yet delivered
    onmessage,          \* per worker, the promise its onmessage handler resolves (0: none)
    promises,           \* the promises of the hashWorkers call: a reply once settled
    arrivals,           \* the workers whose replies reached the main thread, in order
    scratchBefore,      \* what blockWordsBuffer held when the pending call was made
    auto,               \* @rotko/blake3-auto: backend, wasmModule, initialized (index.js:9-11)
    wasmPkg,            \* @rotko/blake3-wasm: wasm, initialized, threadCount (index.js:7-9)
    inits,              \* the init() calls of blake3-auto or of the unified API: where each stands
    env,                \* the host: whether the WASM package loads, SharedArrayBuffer
    lastBlake3,         \* the last blake3() call of blake3-auto: the function it called
    wasmInitialized,    \* let wasmInitialized of the unified API (src/index.ts:60)
    workersInitialized  \* let workersInitialized of the unified API (src/index.ts:61)

poolVars == <<workers, numWorkers, inbox, outbox, onmessage, promises, arrivals>>

\* the state of src/blake3.ts and src/blake3-workers.ts
hashVars == <<pc, call, IS_LITTLE_ENDIAN, simdSupported, wasmInstance, compress4x,
              blockWordsBuffer, calls, tree, result, error, poolVars,
              scratchBefore>>

\* the state of the unified API (src/index.ts)
apiVars == <<wasmInitialized, workersInitialized>>

\* the state of the packages blake3-auto and blake3-wasm, and of the unified API
pkgVars == <<auto, wasmPkg, inits, env, lastBlake3, apiVars>>

vars == <<hashVars, pkgVars>>

----------------------------------------------------------------------------
(* Program constants *)

BLOCK_LEN == 64
CHUNK_LEN == 1024

CHUNK_START == 1
CHUNK_END == 2
PARENT == 4
ROOT == 8
KEYED_HASH == 16
DERIVE_KEY_CONTEXT == 32
DERIVE_KEY_MATERIAL == 64

----------------------------------------------------------------------------
(* 32-bit arithmetic on int32 values *)

Min(a, b) == IF a < b THEN a ELSE b

\* Math.ceil(a / b) for a >= 0, b > 0
CeilDiv(a, b) == (a + b - 1) \div b

Hi16(x) == (x \div 65536) % 65536
Lo16(x) == x % 65536

\* the int32 whose unsigned halves are hi and lo
ToInt32(hi, lo) == (IF hi >= 32768 THEN hi - 65536 ELSE hi) * 65536 + lo

RECURSIVE XorBits(_, _, _)
XorBits(a, b, n) ==
    IF n = 0 THEN 0
    ELSE ((a + b) % 2) + 2 * XorBits(a \div 2, b \div 2, n - 1)

RECURSIVE OrBits(_, _, _)
OrBits(a, b, n) ==
    IF n = 0 THEN 0
    ELSE (IF a % 2 = 1 \/ b % 2 = 1 THEN 1 ELSE 0) + 2 * OrBits(a \div 2, b \div 2, n - 1)

RECURSIVE AndBits(_, _, _)
AndBits(a, b, n) ==
    IF n = 0 THEN 0
    ELSE (IF a % 2 = 1 /\ b % 2 = 1 THEN 1 ELSE 0) + 2 * AndBits(a \div 2, b \div 2, n - 1)

XorByte == [a \in 0..255 |-> [b \in 0..255 |-> XorBits(a, b, 8)]]

Xor16(x, y) == XorByte[x \div 256][y \div 256] * 256 + XorByte[x % 256][y % 256]

\* a ^ b
xor32(a, b) == ToInt32(Xor16(Hi16(a), Hi16(b)), Xor16(Lo16(a), Lo16(b)))

\* (a + b) | 0
add32(a, b) ==
    LET lo == Lo16(a) + Lo16(b)
        hi == Hi16(a) + Hi16(b) + (lo \div 65536)
    IN ToInt32(hi % 65536, lo % 65536)

Pow2(n) ==
    CASE n = 7 -> 128 [] n = 8 -> 256 [] n = 9 -> 512 [] n = 4 -> 16 [] n = 12 -> 4096

\* (x >>> n) | (x << (32 - n)), for the rotation amounts 16, 12, 8, 7 of compress
rotr(x, n) ==
    LET H == Hi16(x)
        L == Lo16(x)
    IN IF n = 16 THEN ToInt32(L, H)
       ELSE LET p == Pow2(n)
                q == Pow2(16 - n)
            IN ToInt32((H \div p) + (L % p) * q, (L \div p) + (H % p) * q)

\* flag words are small non-negative numbers: a | b and a & b on 8 bits
FlagOr(a, b) == OrBits(a, b, 8)
FlagAnd(a, b) == AndBits(a, b, 8)
HasFlag(flags, f) == FlagAnd(flags, f) = f

----------------------------------------------------------------------------
(* compress, src/blake3.ts:37-109 *)

\* 0x6a09e667, 0xbb67ae85, 0x3c6ef372, 0xa54ff53a, 0x510e527f, 0x9b05688c, 0x1f83d9ab, 0x5be0cd19
IV == << ToInt32(27145, 58983), ToInt32(47975, 44677), ToInt32(15470, 62322), ToInt32(42319, 62778),
         ToInt32(20750, 21119), ToInt32(39685, 26764), ToInt32(8067, 55723),  ToInt32(23520, 52505) >>

\* s_a = (((s_a + s_b) | 0) + m) | 0 on state words a, b (0-based)
mixAdd(s, a, b, m) == [s EXCEPT ![a + 1] = add32(add32(s[a + 1], s[b + 1]), m)]

\* s_d ^= s_a; s_d = (s_d >>> n) | (s_d << (32 - n))
mixXorRot(s, d, a, n) == [s EXCEPT ![d + 1] = rotr(xor32(s[d + 1], s[a + 1]), n)]

\* s_c = (s_c + s_d) | 0
mixAdd2(s, c, d) == [s EXCEPT ![c + 1] = add32(s[c + 1], s[d + 1])]

\* one G: the eight statements on state words a, b, c, d with message words mx, my
G(s, a, b, c, d, mx, my) ==
    mixXorRot(mixAdd2(mixXorRot(mixAdd(
        mixXorRot(mixAdd2(mixXorRot(mixAdd(s, a, b, mx), d, a, 16), c, d), b, c, 12),
        a, b, my), d, a, 8), c, d), b, c, 7)

\* the state words of the eight G of a round: four columns, then four diagonals
GWords ==
    << << 0, 4, 8,  12 >>, << 1, 5, 9,  13 >>, << 2, 6, 10, 14 >>, << 3, 7, 11, 15 >>,
       << 0, 5, 10, 15 >>, << 1, 6, 11, 12 >>, << 2, 7, 8,  13 >>, << 3, 4, 9,  14 >> >>

\* the G numbered k..8 of a round, in order, each on the state the one before left;
\* G number k takes the message variables m_(2k-2) and m_(2k-1) as they stand
RECURSIVE RoundFrom(_, _, _)
RoundFrom(s, m, k) ==
    IF k > 8 \/ Len(s) # 16 THEN s
    ELSE RoundFrom(G(s, GWords[k][1], GWords[k][2], GWords[k][3], GWords[k][4],
                     m[2 * k - 1], m[2 * k]),
                   m, k + 1)

\* column mixing, then diagonal mixing
Round(s, m) == RoundFrom(s, m, 1)

\* the message variables left where they are
KeepMsg(m) == m

\* the in-place permutation of the message variables (lines 99-101)
PermuteMsg(m) ==
    << m[3], m[7], m[4], m[11], m[8], m[1], m[5], m[14],
       m[2], m[12], m[13], m[6], m[10], m[15], m[16], m[9] >>

\* rounds i..6 on <<state, message variables>>; the message variables are
\* permuted after rounds 0..5.  Round i is complete before round i + 1 starts.
RECURSIVE Rounds(_, _)
Rounds(sm, i) ==
    IF i < 7 /\ Len(sm[1]) = 16
    THEN Rounds(<< Round(sm[1], sm[2]), IF i < 6 THEN PermuteMsg(sm[2]) ELSE sm[2] >>, i + 1)
    ELSE sm[1]

\* A counter is a JavaScript number: here a whole number from 0 to 2^53 - 1, given
\* by its four 16-bit digits, the lowest first.  NumOf(n) is the number n < 2^31.
NumOf(n) == << n % 65536, n \div 65536, 0, 0 >>

\* counter | 0: ToInt32 keeps the low 32 bits
counterLo(num) == ToInt32(num[2], num[1])

\* counter >>> 32 in place of the division: a shift by 32 is a shift by 0
counterHiShifted(num) == ToInt32(num[2], num[1])

\* (counter / 0x100000000) | 0: the quotient has the digits above 2^32 before the
\* point and the rest behind it, and | 0 drops what is behind the point
counterHi(num) == ToInt32(num[4], num[3])

\* what the state is made from: cv, m, and s_12 .. s_15 (lines 44-47)
stateArgs(cv, m, num, blockLen, flags) ==
    << cv, m, << counterLo(num), counterHi(num), blockLen, flags >> >>

\* the state compress starts from, for x = stateArgs(cv, m, counter, blockLen, flags)
initialState(x) ==
    << x[1][1], x[1][2], x[1][3], x[1][4], x[1][5], x[1][6], x[1][7], x[1][8],
       IV[1], IV[2], IV[3], IV[4],
       x[3][1], x[3][2], x[3][3], x[3][4] >>

\* the first eight state words as they are, without the ^ s_(i+8)
outputWordsNoFeedForward(s) == << s[1], s[2], s[3], s[4], s[5], s[6], s[7], s[8] >>

\* the array compress returns: s_i ^ s_(i+8)
outputWords(s) ==
    << xor32(s[1], s[9]),  xor32(s[2], s[10]), xor32(s[3], s[11]), xor32(s[4], s[12]),
       xor32(s[5], s[13]), xor32(s[6], s[14]), xor32(s[7], s[15]), xor32(s[8], s[16]) >>

compressBody(x) == outputWords(Rounds(<< initialState(x), x[2] >>, 0))

CompressArgs == Seq(Seq(Int))

compressFn[x \in CompressArgs] == compressBody(x)

\* compress with the counter given as a number of any size
compressNum(cv, m, num, blockLen, flags) == compressFn[stateArgs(cv, m, num, blockLen, flags)]

\* compress with a counter below 2^31
compress(cv, m, counter, blockLen, flags) == compressNum(cv, m, NumOf(counter), blockLen, flags)

\* compress as its caller sees it: the array returned, and the arrays cv and m as
\* the call leaves them.  compress copies their elements into the locals s_0..s_7
\* and m_0..m_15 (lines 44-52), assigns to locals only, and returns a new array
\* (lines 105-108).
compressCall(cv, m, counter, blockLen, flags) ==
    [out |-> compress(cv, m, counter, blockLen, flags), cv |-> cv, m |-> m]

----------------------------------------------------------------------------
(* Inputs.  A byte array is given by its length, the generator of its       *)
(* bytes and the byteOffset of the view; generator 0 is generateInput of    *)
(* src/bench.ts:13-17, generators 1 and 2 stand for arbitrary contents and  *)
(* generator 3 for the encoding of a string of printable ASCII characters.  *)

InputByte(input, i) ==
    CASE input.pat = 0 -> i % 251
      [] input.pat = 1 -> (i * 7 + 13) % 256
      [] input.pat = 2 -> 255 - (i % 3)
      [] input.pat = 3 -> 32 + (i % 95)

\* b0 | (b1 << 8) | (b2 << 16) | (b3 << 24)
LEWord(b0, b1, b2, b3) == ToInt32(b3 * 256 + b2, b1 * 256 + b0)

ZeroBlock == << 0, 0, 0, 0, 0, 0, 0, 0, 0, 0, 0, 0, 0, 0, 0, 0 >>

\* whole words only: the bytes left after the last whole word are not read
readBlockWordWhole(input, offset, end, wi) ==
    IF offset + 4 * wi + 4 <= end
    THEN LEWord(InputByte(input, offset + 4 * wi), InputByte(input, offset + 4 * wi + 1),
                InputByte(input, offset + 4 * wi + 2), InputByte(input, offset + 4 * wi + 3))
    ELSE 0

\* word wi of out after readBlock: out.fill(0), whole words while i + 4 <= end,
\* then one partial word from the bytes left
readBlockWord(input, offset, end, wi) ==
    LET i == offset + 4 * wi
        B(k) == IF i + k < end THEN InputByte(input, i + k) ELSE 0
    IN IF i + 4 <= end THEN LEWord(InputByte(input, i), InputByte(input, i + 1),
                                   InputByte(input, i + 2), InputByte(input, i + 3))
       ELSE IF i < end THEN LEWord(B(0), B(1), B(2), 0)
       ELSE ZeroBlock[wi + 1]

\* readBlock without out.fill(0): the words it does not write keep what out held
readBlockNoFill(input, offset, length, out) ==
    LET end == Min(offset + length, input.len)
    IN [wi \in 1..16 |->
          IF offset + 4 * (wi - 1) < end
          THEN readBlockWord(input, offset, end, wi - 1)
          ELSE out[wi]]

readBlock(input, offset, length, out) ==
    LET end == Min(offset + length, input.len)
        W(wi) == readBlockWord(input, offset, end, wi)
    IN << W(0), W(1), W(2),  W(3),  W(4),  W(5),  W(6),  W(7),
          W(8), W(9), W(10), W(11), W(12), W(13), W(14), W(15) >>

\* element wi of new Uint32Array(input.buffer, absoluteOffset, 16): host byte order
viewWord(input, offset, wi) ==
    LET i == offset + 4 * wi
    IN IF IS_LITTLE_ENDIAN
       THEN LEWord(InputByte(input, i), InputByte(input, i + 1),
                   InputByte(input, i + 2), InputByte(input, i + 3))
       ELSE LEWord(InputByte(input, i + 3), InputByte(input, i + 2),
                   InputByte(input, i + 1), InputByte(input, i))

\* returns whether the fast path applied and the contents of out afterwards
readBlockFastLE(input, offset, out) ==
    LET absoluteOffset == input.byteOffset + offset
        V(wi) == viewWord(input, offset, wi)
    IN IF IS_LITTLE_ENDIAN /\ absoluteOffset % 4 = 0 /\ offset + 64 <= input.len
       THEN [ok |-> TRUE,
             out |-> << V(0), V(1), V(2),  V(3),  V(4),  V(5),  V(6),  V(7),
                        V(8), V(9), V(10), V(11), V(12), V(13), V(14), V(15) >>]
       ELSE [ok |-> FALSE, out |-> out]

\* byte (0 to 3, from the low end) of a word
wordByte(word, b) ==
    CASE b = 0 -> Lo16(word) % 256
      [] b = 1 -> Lo16(word) \div 256
      [] b = 2 -> Hi16(word) % 256
      [] b = 3 -> Hi16(word) \div 256

\* a cvToBytes that writes whole words only: byte k is written if its word ends
\* within outputLen
cvByteWholeWords(cv, outputLen, k) ==
    IF k \div 4 < Min(8, CeilDiv(outputLen, 4)) /\ 4 * (k \div 4) + 4 <= outputLen
    THEN wordByte(cv[k \div 4 + 1], k % 4)
    ELSE 0

\* byte k of result in cvToBytes: new Uint8Array(outputLen) is zero-filled, and word
\* i < min(8, ceil(outputLen / 4)) is written little-endian where the index is in range
cvByte(cv, outputLen, k) ==
    IF k \div 4 < Min(8, CeilDiv(outputLen, 4)) /\ k < outputLen
    THEN wordByte(cv[k \div 4 + 1], k % 4)
    ELSE 0

cvToBytes(cv, outputLen) == [k \in 1..outputLen |-> cvByte(cv, outputLen, k - 1)]

----------------------------------------------------------------------------
(* The chunk and tree engine of src/blake3.ts.  The operators thread       *)
(* st = [calls, buf, cvStack, spans, stackLog, merges]: the compress calls *)
(* made so far, each with the place that made it (site), the contents of   *)
(* the scratch block buffer and the subtree stack.  The last three fields  *)
(* are history the code does not keep: spans[i] is the run of chunks       *)
(* [first, first + count) that cvStack[i] was computed from, stackLog the  *)
(* spans as they stood at the end of each iteration of hash's chunk loop,  *)
(* and merges the spans of the two CVs each parent compression took.       *)

CallRec(site, cv, m, counter, blockLen, flags) ==
    [site |-> site, cv |-> cv, m |-> m, counter |-> counter,
     blockLen |-> blockLen, flags |-> flags]

\* the state a call starts from: no compress call yet, const cvStack = []
StartState(buf) ==
    [calls |-> << >>, buf |-> buf, cvStack |-> << >>,
     spans |-> << >>, stackLog |-> << >>, merges |-> << >>]

\* no stack has been built
NoTree == [stackLog |-> << >>, merges |-> << >>]

\* Math.ceil(len / BLOCK_LEN) without the || 1: no block for an empty input
NumBlocksCeil(len) == CeilDiv(len, BLOCK_LEN)

\* Math.floor in place of Math.ceil: a trailing partial block is left out
NumBlocksFloor(len) == IF len \div BLOCK_LEN = 0 THEN 1 ELSE len \div BLOCK_LEN

\* Math.ceil(len / BLOCK_LEN) || 1
NumBlocks(len) == IF CeilDiv(len, BLOCK_LEN) = 0 THEN 1 ELSE CeilDiv(len, BLOCK_LEN)

\* what a block loop is run with: the bytes [chunkStart, chunkStart + chunkLen) of
\* input, the counter, the mode flags, the flags of the final block, whether
\* readBlockFastLE is tried, and the site recorded with each call
LoopArgs(input, chunkStart, chunkLen, counter, flags, lastFlags, fast, site) ==
    [input |-> input, chunkStart |-> chunkStart, chunkLen |-> chunkLen,
     counter |-> counter, flags |-> flags, lastFlags |-> lastFlags,
     fast |-> fast, site |-> site]

\* CHUNK_START on every block, not only where pos = 0
blockFlagsStartAlways(p, pos, blocksRemaining) ==
    IF blocksRemaining = 1 THEN FlagOr(FlagOr(p.flags, CHUNK_START), p.lastFlags)
    ELSE FlagOr(p.flags, CHUNK_START)

\* let blockFlags = flags; if (isFirst) |= CHUNK_START; if (isLast) |= lastFlags
blockFlagsAt(p, pos, blocksRemaining) ==
    LET f1 == IF pos = 0 THEN FlagOr(p.flags, CHUNK_START) ELSE p.flags
    IN IF blocksRemaining = 1 THEN FlagOr(f1, p.lastFlags) ELSE f1

\* the sixteen words handed to compress for the block at pos:
\* if (blockLen === BLOCK_LEN && readBlockFastLE(..)) { } else { readBlock(..) }
fastOrRead(input, offset, blockLen, fp) ==
    IF fp.ok THEN fp.out ELSE readBlock(input, offset, blockLen, fp.out)

blockWordsAt(p, pos, blockLen, buf) ==
    fastOrRead(p.input, p.chunkStart + pos, blockLen,
               IF p.fast /\ blockLen = BLOCK_LEN
               THEN readBlockFastLE(p.input, p.chunkStart + pos, buf)
               ELSE [ok |-> FALSE, out |-> buf])

\* The block loop of processChunk (lines 161-181).  hash, keyedHash, deriveKey and
\* the functions of src/blake3-workers.ts repeat the same loop inline with their
\* own counter and final-block flags; only processChunk and hash try the fast path.
RECURSIVE blockLoop(_, _, _, _, _)
blockLoop(p, pos, blocksRemaining, cv, st) ==
    \* the previous block is compressed before this one is read
    IF blocksRemaining <= 0 \/ Len(cv) # 8 \/ Len(st.calls) < 0
    THEN [cv |-> cv, st |-> st, counter |-> p.counter]
    ELSE
      LET blockLen == Min(BLOCK_LEN, p.chunkLen - pos)
          blockFlags == blockFlagsAt(p, pos, blocksRemaining)
          words == blockWordsAt(p, pos, blockLen, st.buf)
      IN blockLoop(p, pos + BLOCK_LEN, blocksRemaining - 1,
                   compress(cv, words, p.counter, blockLen, blockFlags),
                   [st EXCEPT !.calls = Append(@, CallRec(p.site, cv, words, p.counter,
                                                          blockLen, blockFlags)),
                              !.buf = words])

processChunk(input, chunkStart, chunkLen, chunkCounter, flags, st) ==
    blockLoop(LoopArgs(input, chunkStart, chunkLen, chunkCounter, flags, CHUNK_END,
                       TRUE, "chunk"),
              0, NumBlocks(chunkLen), IV, st)

\* cvStack.push(cv) for the CV a block loop ended with
pushCv(ch) ==
    [ch.st EXCEPT !.cvStack = Append(@, ch.cv),
                  !.spans = Append(@, [first |-> ch.counter, count |-> 1])]

Pop2(stack) == SubSeq(stack, 1, Len(stack) - 2)

\* the two CVs the other way round: block.set(right, 0); block.set(left, 8)
parentBlockSwapped(cvStack) == cvStack[Len(cvStack)] \o cvStack[Len(cvStack) - 1]

\* block.set(left, 0); block.set(right, 8)
parentBlock(cvStack) == cvStack[Len(cvStack) - 1] \o cvStack[Len(cvStack)]

\* right = cvStack.pop(); left = cvStack.pop();
\* cvStack.push(compress(key, block, 0, BLOCK_LEN, parentFlags))
parentCompress(key, parentFlags, st) ==
    LET left == st.spans[Len(st.spans) - 1]
        right == st.spans[Len(st.spans)]
    IN [st EXCEPT
          !.calls = Append(@, CallRec("parent", key, parentBlock(st.cvStack), 0,
                                      BLOCK_LEN, parentFlags)),
          !.cvStack = Append(Pop2(@), compress(key, parentBlock(st.cvStack), 0,
                                               BLOCK_LEN, parentFlags)),
          !.spans = Append(Pop2(@), [first |-> left.first,
                                     count |-> left.count + right.count]),
          !.merges = Append(@, [left |-> left, right |-> right])]

\* mergeParents (lines 186-200) applied to the two CVs popped, its result pushed
mergeParents(flags, isRoot, st) ==
    parentCompress(IV,
                   IF isRoot THEN FlagOr(FlagOr(flags, PARENT), ROOT)
                   ELSE FlagOr(flags, PARENT),
                   st)

\* an if in place of the while: at most one merge after a chunk
eagerMergesOnce(totalChunks, flags, st) ==
    IF totalChunks % 2 = 0 /\ Len(st.cvStack) >= 2
    THEN mergeParents(flags, FALSE, st)
    ELSE st

\* while ((totalChunks & 1) === 0 && cvStack.length >= 2) { merge; totalChunks >>= 1 }
RECURSIVE eagerMerges(_, _, _)
eagerMerges(totalChunks, flags, st) ==
    IF totalChunks % 2 = 0 /\ Len(st.cvStack) >= 2
    THEN eagerMerges(totalChunks \div 2, flags, mergeParents(flags, FALSE, st))
    ELSE st

\* while (cvStack.length > 1) { merge with isRoot = (cvStack.length === 0 after the pops) }
RECURSIVE finalMerges(_, _)
finalMerges(flags, st) ==
    IF Len(st.cvStack) > 1
    THEN finalMerges(flags, mergeParents(flags, Len(Pop2(st.cvStack)) = 0, st))
    ELSE st

\* the chunk loop of keyedHash (lines 345-354) has no such test: it merges after
\* every chunk
mergesAfterEveryChunk(c, numChunks) == TRUE

\* if (!isLastChunk) in the chunk loop of hash: whether chunk c is followed by
\* the eager merges
mergesAfterChunk(c, numChunks) == c # numChunks - 1

\* cvStack.push(cv) and the merges that follow chunk c
afterChunk(c, numChunks, flags, ch) ==
    IF mergesAfterChunk(c, numChunks)
    THEN eagerMerges(c + 1, flags, pushCv(ch))
    ELSE pushCv(ch)

\* the end of an iteration of the chunk loop: the stack as it stands is noted
endOfIteration(st) == [st EXCEPT !.stackLog = Append(@, st.spans)]

\* the chunk loop of hash (lines 243-262), from chunk c on
RECURSIVE hashChunks(_, _, _, _, _)
hashChunks(input, numChunks, flags, c, st) ==
    IF c >= numChunks \/ Len(st.calls) < 0 THEN st
    ELSE hashChunks(input, numChunks, flags, c + 1,
             endOfIteration(afterChunk(c, numChunks, flags,
                 processChunk(input, c * CHUNK_LEN,
                              Min(CHUNK_LEN, input.len - c * CHUNK_LEN), c, flags, st))))

\* return cvToBytes(cv, outputLen) after the single-chunk loop
returnCv(r, outputLen) ==
    [error |-> "", out |-> cvToBytes(r.cv, outputLen), st |-> r.st]

\* return cvToBytes(cvStack[0], outputLen)
returnRoot(st, outputLen) ==
    [error |-> "", out |-> cvToBytes(st.cvStack[1], outputLen), st |-> st]

\* hash(input, outputLen), lines 205-273: the bytes returned and the final st
hash(input, outputLen, st) ==
    IF input.len <= CHUNK_LEN
    THEN returnCv(blockLoop(LoopArgs(input, 0, input.len, 0, 0,
                                     FlagOr(CHUNK_END, ROOT), TRUE, "chunk"),
                            0, NumBlocks(input.len), IV, st),
                  outputLen)
    ELSE returnRoot(finalMerges(0, hashChunks(input, CeilDiv(input.len, CHUNK_LEN),
                                              0, 0, st)),
                    outputLen)

----------------------------------------------------------------------------
(* keyedHash and deriveKey of src/blake3.ts                                *)

\* a check that lets longer keys through
keyLengthAtLeast(key) == key.len >= 32

\* if (key.length !== 32) throw
keyLengthOk(key) == key.len = 32

\* keyWords[i] = key[o] | (key[o+1] << 8) | (key[o+2] << 16) | (key[o+3] << 24)
keyWord(key, i) ==
    LEWord(InputByte(key, i * 4), InputByte(key, i * 4 + 1),
           InputByte(key, i * 4 + 2), InputByte(key, i * 4 + 3))

keyWordsOf(key) ==
    << keyWord(key, 0), keyWord(key, 1), keyWord(key, 2), keyWord(key, 3),
       keyWord(key, 4), keyWord(key, 5), keyWord(key, 6), keyWord(key, 7) >>

\* the CV mergeParents gives to compress for a parent node, whatever the key
unkeyedParentCv(keyWords) == IV

\* the CV given to compress for a parent node in keyedHash (lines 352, 364)
keyedParentCv(keyWords) == keyWords

\* the merge loop inside the chunk loop of keyedHash (lines 345-354)
RECURSIVE keyedEagerMerges(_, _, _, _)
keyedEagerMerges(keyWords, totalChunks, flags, st) ==
    IF totalChunks % 2 = 0 /\ Len(st.cvStack) >= 2
    THEN keyedEagerMerges(keyWords, totalChunks \div 2, flags,
             parentCompress(keyedParentCv(keyWords), FlagOr(flags, PARENT), st))
    ELSE st

\* the final loop of keyedHash (lines 357-365)
RECURSIVE keyedFinalMerges(_, _, _)
keyedFinalMerges(keyWords, flags, st) ==
    IF Len(st.cvStack) > 1
    THEN keyedFinalMerges(keyWords, flags,
             parentCompress(keyedParentCv(keyWords),
                            IF Len(Pop2(st.cvStack)) = 0
                            THEN FlagOr(FlagOr(flags, PARENT), ROOT)
                            ELSE FlagOr(flags, PARENT),
                            st))
    ELSE st

\* the chunk loop of keyedHash (lines 318-355), from chunk c on: every chunk,
\* the last one too, is followed by the merge loop
RECURSIVE keyedChunks(_, _, _, _, _, _)
keyedChunks(keyWords, input, numChunks, flags, c, st) ==
    IF c >= numChunks \/ Len(st.calls) < 0 THEN st
    ELSE keyedChunks(keyWords, input, numChunks, flags, c + 1,
             keyedEagerMerges(keyWords, c + 1, flags,
                 pushCv(blockLoop(LoopArgs(input, c * CHUNK_LEN,
                                           Min(CHUNK_LEN, input.len - c * CHUNK_LEN),
                                           c, flags, CHUNK_END, FALSE, "chunk"),
                                  0, NumBlocks(Min(CHUNK_LEN, input.len - c * CHUNK_LEN)),
                                  keyWords, st))))

\* keyedHash past the key check, with keyWords filled in
keyedRun(keyWords, input, outputLen, st) ==
    IF input.len <= CHUNK_LEN
    THEN returnCv(blockLoop(LoopArgs(input, 0, input.len, 0, KEYED_HASH,
                                     FlagOr(CHUNK_END, ROOT), FALSE, "chunk"),
                            0, NumBlocks(input.len), keyWords, st),
                  outputLen)
    ELSE returnRoot(keyedFinalMerges(keyWords, KEYED_HASH,
                        keyedChunks(keyWords, input, CeilDiv(input.len, CHUNK_LEN),
                                    KEYED_HASH, 0, st)),
                    outputLen)

\* keyedHash(key, input, outputLen), lines 278-368: the message of the error thrown
\* ("" when it returns), the bytes returned and the final st
keyedHash(key, input, outputLen, st) ==
    IF ~keyLengthOk(key)
    THEN [error |-> "Key must be 32 bytes", out |-> << >>, st |-> st]
    ELSE keyedRun(keyWordsOf(key), input, outputLen, st)

\* Step 2 of deriveKey (lines 399-419): one block loop over keyMaterial, from the
\* CV and state Step 1 ended with
deriveMaterial(ctx, keyMaterial) ==
    blockLoop(LoopArgs(keyMaterial, 0, keyMaterial.len, 0, DERIVE_KEY_MATERIAL,
                       FlagOr(CHUNK_END, ROOT), FALSE, "material"),
              0, NumBlocks(keyMaterial.len), ctx.cv, ctx.st)

\* deriveKey(context, keyMaterial, outputLen), lines 373-422.  contextBytes is the
\* array encoder.encode(context) returns; Step 1 is one block loop over it.
deriveKey(contextBytes, keyMaterial, outputLen, st) ==
    returnCv(deriveMaterial(
                 blockLoop(LoopArgs(contextBytes, 0, contextBytes.len, 0,
                                    DERIVE_KEY_CONTEXT, FlagOr(CHUNK_END, ROOT),
                                    FALSE, "context"),
                           0, NumBlocks(contextBytes.len), IV, st),
                 keyMaterial),
             outputLen)

----------------------------------------------------------------------------
(* src/blake3-workers.ts: the synchronous hash of the workers module and    *)
(* hashWasmSimd.  The module has its own copies of compress (compressJS),   *)
(* readBlock, cvToBytes and mergeParents, line for line those of            *)
(* src/blake3.ts, and its scratch block buffers are locals of each call.    *)

\* processChunk of the workers module (lines 111-142): readBlock only
processChunkW(input, chunkStart, chunkLen, chunkCounter, flags, st) ==
    blockLoop(LoopArgs(input, chunkStart, chunkLen, chunkCounter, flags, CHUNK_END,
                       FALSE, "chunk"),
              0, NumBlocks(chunkLen), IV, st)

\* cvStack.push(cv); if (!isLastChunk) { the merge loop }, for chunk number c
pushAndMerge(c, numChunks, flags, st) ==
    IF c # numChunks - 1 THEN eagerMerges(c + 1, flags, st) ELSE st

\* the chunk loop of the synchronous hash (lines 483-501), from chunk c on
RECURSIVE hashChunksW(_, _, _, _, _)
hashChunksW(input, numChunks, flags, c, st) ==
    IF c >= numChunks \/ Len(st.calls) < 0 THEN st
    ELSE hashChunksW(input, numChunks, flags, c + 1,
             pushAndMerge(c, numChunks, flags,
                 pushCv(processChunkW(input, c * CHUNK_LEN,
                                      Min(CHUNK_LEN, input.len - c * CHUNK_LEN),
                                      c, flags, st))))

\* export function hash of the workers module, lines 451-515
hashWorkersSync(input, outputLen, st) ==
    IF input.len <= CHUNK_LEN
    THEN returnCv(blockLoop(LoopArgs(input, 0, input.len, 0, 0,
                                     FlagOr(CHUNK_END, ROOT), FALSE, "chunk"),
                            0, NumBlocks(input.len), IV, st),
                  outputLen)
    ELSE returnRoot(finalMerges(0, hashChunksW(input, CeilDiv(input.len, CHUNK_LEN),
                                               0, 0, st)),
                    outputLen)

\* cvs[c].set(result) at the end of a chunk of the batch
appendCv(cvs, ch) == [cvs |-> Append(cvs, ch.cv), st |-> ch.st]

\* lines 1249-1274: the four chunks of a batch, each through compressJS, from c on;
\* b = [cvs, st] holds the CVs of the chunks done
RECURSIVE batchChunks(_, _, _, _, _, _)
batchChunks(input, offset, chunkCounter, flags, c, b) ==
    IF c >= 4 \/ Len(b.st.calls) < 0 THEN b
    ELSE batchChunks(input, offset, chunkCounter, flags, c + 1,
             appendCv(b.cvs,
                 blockLoop(LoopArgs(input, offset + c * CHUNK_LEN,
                                    Min(CHUNK_LEN, input.len - (offset + c * CHUNK_LEN)),
                                    chunkCounter + c, flags, CHUNK_END, FALSE, "chunk"),
                           0, NumBlocks(Min(CHUNK_LEN, input.len - (offset + c * CHUNK_LEN))),
                           IV, b.st)))

\* lines 1277-1297: the four CVs pushed in order, each followed by the merge rule
RECURSIVE batchPush(_, _, _, _, _, _)
batchPush(numChunks, chunkCounter, flags, c, cvs, st) ==
    IF c >= 4 \/ Len(st.calls) < 0 THEN st
    ELSE batchPush(numChunks, chunkCounter, flags, c + 1, cvs,
             pushAndMerge(chunkCounter + c, numChunks, flags,
                          pushCv([cv |-> cvs[c + 1], st |-> st,
                                  counter |-> chunkCounter + c])))

\* one batch: the four chunks, then the four pushes
batch(numChunks, chunkCounter, flags, b) ==
    batchPush(numChunks, chunkCounter, flags, 0, b.cvs, b.st)

\* while (offset < input.length), lines 1245-1350
RECURSIVE wasmLoop(_, _, _, _, _, _)
wasmLoop(input, numChunks, flags, offset, chunkCounter, st) ==
    IF offset >= input.len \/ Len(st.calls) < 0 THEN st
    ELSE IF Min(4, CeilDiv(input.len - offset, CHUNK_LEN)) >= 4 /\ compress4x
         THEN wasmLoop(input, numChunks, flags, offset + 4 * CHUNK_LEN, chunkCounter + 4,
                  batch(numChunks, chunkCounter, flags,
                        batchChunks(input, offset, chunkCounter, flags, 0,
                                    [cvs |-> << >>, st |-> st])))
         ELSE wasmLoop(input, numChunks, flags, offset + CHUNK_LEN, chunkCounter + 1,
                  pushAndMerge(chunkCounter, numChunks, flags,
                      pushCv(blockLoop(LoopArgs(input, offset,
                                                Min(CHUNK_LEN, input.len - offset),
                                                chunkCounter, flags, CHUNK_END,
                                                FALSE, "chunk"),
                                       0, NumBlocks(Min(CHUNK_LEN, input.len - offset)),
                                       IV, st))))

\* hashWasmSimd(input, outputLen), lines 1198-1367
hashWasmSimd(input, outputLen, st) ==
    IF input.len <= CHUNK_LEN \/ ~compress4x
    THEN returnCv(blockLoop(LoopArgs(input, 0, input.len, 0, 0,
                                     FlagOr(CHUNK_END, ROOT), FALSE, "chunk"),
                            0, NumBlocks(input.len), IV, st),
                  outputLen)
    ELSE returnRoot(finalMerges(0, wasmLoop(input, CeilDiv(input.len, CHUNK_LEN),
                                            0, 0, 0, st)),
                    outputLen)


----------------------------------------------------------------------------
(* src/blake3-workers.ts: the worker pool and hashWorkers.  A worker runs   *)
(* the script of workerCode, which has its own copies of compress and       *)
(* readBlock; the main thread posts one task per worker and awaits the      *)
(* replies.                                                                 *)

\* the same loop with every chunk compressed under counter 0
RECURSIVE workerChunksCounterZero(_, _, _, _, _)
workerChunksCounterZero(data, endChunk, flags, c, b) ==
    IF c >= endChunk \/ Len(b.st.calls) < 0 THEN b
    ELSE workerChunksCounterZero(data, endChunk, flags, c + 1,
             appendCv(b.cvs,
                 blockLoop(LoopArgs(data, c * CHUNK_LEN,
                                    Min(CHUNK_LEN, data.len - c * CHUNK_LEN),
                                    0, flags, CHUNK_END, FALSE, "worker"),
                           0, NumBlocks(Min(CHUNK_LEN, data.len - c * CHUNK_LEN)),
                           IV, b.st)))

\* the loop of self.onmessage over the chunks startChunk..endChunk-1, from chunk c
\* on; b = [cvs, st] holds the CVs pushed so far (workerCode, lines 224-259)
RECURSIVE workerChunks(_, _, _, _, _)
workerChunks(data, endChunk, flags, c, b) ==
    IF c >= endChunk \/ Len(b.st.calls) < 0 THEN b
    ELSE workerChunks(data, endChunk, flags, c + 1,
             appendCv(b.cvs,
                 blockLoop(LoopArgs(data, c * CHUNK_LEN,
                                    Min(CHUNK_LEN, data.len - c * CHUNK_LEN),
                                    c, flags, CHUNK_END, FALSE, "worker"),
                           0, NumBlocks(Min(CHUNK_LEN, data.len - c * CHUNK_LEN)),
                           IV, b.st)))

\* self.postMessage({ startChunk, cvs }) for the task e.data
workerReply(task) ==
    [startChunk |-> task.startChunk,
     cvs |-> workerChunks(task.input, task.endChunk, task.flags, task.startChunk,
                          [cvs |-> << >>, st |-> StartState(ZeroBlock)]).cvs]

\* a promise that is not settled yet
Pending == [startChunk |-> -1, cvs |-> << >>]

Settled(p) == p.startChunk >= 0

\* const chunksPerWorker = Math.ceil(numChunks / workers.length)
chunksPerWorker(numChunks, n) == CeilDiv(numChunks, n)

\* the number of iterations of the dispatch loop before its break:
\* for (i < workers.length) { if (i * chunksPerWorker >= numChunks) break; ... }
numTasks(numChunks, n, perWorker) ==
    Cardinality({i \in 0..(n - 1) : i * perWorker < numChunks})

\* a task whose endChunk is not limited to numChunks
taskOfUnclamped(input, i, numChunks, perWorker, flags) ==
    [input |-> input, startChunk |-> i * perWorker,
     endChunk |-> i * perWorker + perWorker, flags |-> flags]

\* the message posted to workers[i] (i counted from 0)
taskOf(input, i, numChunks, perWorker, flags) ==
    [input |-> input, startChunk |-> i * perWorker,
     endChunk |-> Min(i * perWorker + perWorker, numChunks), flags |-> flags]

\* the tasks posted by one call, in the order of the dispatch loop (lines 382-404)
dispatch(input, numChunks, n, flags) ==
    [k \in 1..numTasks(numChunks, n, chunksPerWorker(numChunks, n)) |->
        taskOf(input, k - 1, numChunks, chunksPerWorker(numChunks, n), flags)]

\* insertion of r into a sequence sorted by startChunk, after the equal ones
RECURSIVE insertSorted(_, _)
insertSorted(r, sorted) ==
    IF sorted = << >> THEN <<r>>
    ELSE IF r.startChunk < Head(sorted).startChunk THEN <<r>> \o sorted
    ELSE <<Head(sorted)>> \o insertSorted(r, Tail(sorted))

\* results.sort((a, b) => a.startChunk - b.startChunk), a stable sort
RECURSIVE sortByStart(_)
sortByStart(results) ==
    IF results = << >> THEN << >>
    ELSE insertSorted(results[Len(results)], sortByStart(SubSeq(results, 1, Len(results) - 1)))

\* for (const result of results) for (const cv of result.cvs) allCvs.push(cv)
RECURSIVE flatten(_)
flatten(results) ==
    IF results = << >> THEN << >> ELSE Head(results).cvs \o flatten(Tail(results))

\* the loop that builds the tree from allCvs (lines 423-438), from index i on
RECURSIVE treeLoop(_, _, _, _)
treeLoop(allCvs, flags, i, st) ==
    IF i >= Len(allCvs) \/ Len(st.calls) < 0 THEN st
    ELSE treeLoop(allCvs, flags, i + 1,
             pushAndMerge(i, Len(allCvs), flags,
                          pushCv([cv |-> allCvs[i + 1], st |-> st, counter |-> i])))

\* hashWorkers after await Promise.all(promises): results holds the replies in the
\* order of the promises
hashWorkersJoin(results, outputLen, st) ==
    returnRoot(finalMerges(0, treeLoop(flatten(sortByStart(results)), 0, 0, st)),
               outputLen)

\* the single-threaded branch of hashWorkers (lines 345-373): processChunk over the
\* whole input, its CV unused, then one block loop that ends with CHUNK_END | ROOT
hashWorkersSingle(input, outputLen, st) ==
    returnCv(blockLoop(LoopArgs(input, 0, input.len, 0, 0, FlagOr(CHUNK_END, ROOT),
                                FALSE, "chunk"),
                       0, NumBlocks(input.len), IV,
                       processChunkW(input, 0, input.len, 0, 0, st).st),
             outputLen)

----------------------------------------------------------------------------
(* src/blake3-workers.ts: compressSimd4x and the compress4x kernel that     *)
(* generateWasmModule emits.  A v128 is the tuple of its four i32 lanes;    *)
(* the WASM memory is the tuple of its 32-bit little-endian words, which is *)
(* how both DataView.setUint32(.., true) and v128.load / v128.store see it. *)
(* The byte 0x01 emitted after i32x4.add, i32x4.shl and i32x4.shr_u decodes *)
(* as a nop.                                                                *)

OrByte == [a \in 0..255 |-> [b \in 0..255 |-> OrBits(a, b, 8)]]

Or16(x, y) == OrByte[x \div 256][y \div 256] * 256 + OrByte[x % 256][y % 256]

or32(a, b) == ToInt32(Or16(Hi16(a), Hi16(b)), Or16(Lo16(a), Lo16(b)))

\* x >>> n for the shift counts 16, 12, 8, 7
shr_u32(x, n) ==
    IF n = 16 THEN ToInt32(0, Hi16(x))
    ELSE ToInt32(Hi16(x) \div Pow2(n),
                 (Lo16(x) \div Pow2(n)) + (Hi16(x) % Pow2(n)) * Pow2(16 - n))

\* x << k for the shift counts 16, 20, 24, 25
shl32(x, k) ==
    IF k = 16 THEN ToInt32(Lo16(x), 0)
    ELSE ToInt32((Lo16(x) % Pow2(32 - k)) * Pow2(k - 16), 0)

i32x4_add(a, b) ==
    << add32(a[1], b[1]), add32(a[2], b[2]), add32(a[3], b[3]), add32(a[4], b[4]) >>

v128_xor(a, b) ==
    << xor32(a[1], b[1]), xor32(a[2], b[2]), xor32(a[3], b[3]), xor32(a[4], b[4]) >>

v128_or(a, b) ==
    << or32(a[1], b[1]), or32(a[2], b[2]), or32(a[3], b[3]), or32(a[4], b[4]) >>

i32x4_shr_u(a, n) ==
    << shr_u32(a[1], n), shr_u32(a[2], n), shr_u32(a[3], n), shr_u32(a[4], n) >>

i32x4_shl(a, k) == << shl32(a[1], k), shl32(a[2], k), shl32(a[3], k), shl32(a[4], k) >>

\* local.tee TEMP; i32.const n; i32x4.shr_u; local.get TEMP; i32.const k; i32x4.shl; v128.or
shiftOr(temp, n, k) == v128_or(i32x4_shr_u(temp, n), i32x4_shl(temp, k))

\* a = a + b + mx on the state locals S(a), S(b) and a message local
vAddMsg(S, a, b, mv) == [S EXCEPT ![a + 1] = i32x4_add(i32x4_add(S[a + 1], S[b + 1]), mv)]

\* d = (d ^ a) shifted right by n or-ed with shifted left by k
vXorShift(S, d, a, n, k) == [S EXCEPT ![d + 1] = shiftOr(v128_xor(S[d + 1], S[a + 1]), n, k)]

\* c = c + d
vAdd(S, c, d) == [S EXCEPT ![c + 1] = i32x4_add(S[c + 1], S[d + 1])]

\* the instructions of one emitGFb(a, b, c, d, mx, my); mvx and mvy are the
\* message locals M(msgPerm[mx]) and M(msgPerm[my])
emitGFb(S, a, b, c, d, mvx, mvy) ==
    vXorShift(vAdd(vXorShift(vAddMsg(
        vXorShift(vAdd(vXorShift(vAddMsg(S, a, b, mvx), d, a, 16, 16), c, d), b, c, 12, 20),
        a, b, mvy), d, a, 8, 24), c, d), b, c, 7, 25)

\* const MSG_PERMUTATION (line 617)
MSG_PERMUTATION == << 2, 6, 3, 10, 7, 0, 4, 13, 1, 11, 12, 5, 9, 14, 15, 8 >>

\* the arguments of the eight emitGFb of a round (lines 883-893)
KernelG ==
    << << 0, 4, 8,  12, 0,  1 >>,  << 1, 5, 9,  13, 2,  3 >>,
       << 2, 6, 10, 14, 4,  5 >>,  << 3, 7, 11, 15, 6,  7 >>,
       << 0, 5, 10, 15, 8,  9 >>,  << 1, 6, 11, 12, 10, 11 >>,
       << 2, 7, 8,  13, 12, 13 >>, << 3, 4, 9,  14, 14, 15 >> >>

\* the emitGFb numbered k..8 of a round with the index table msgPerm
RECURSIVE kernelRoundFrom(_, _, _, _)
kernelRoundFrom(S, M, msgPerm, k) ==
    IF k > 8 \/ Len(S) # 16 THEN S
    ELSE kernelRoundFrom(
             emitGFb(S, KernelG[k][1], KernelG[k][2], KernelG[k][3], KernelG[k][4],
                     M[msgPerm[KernelG[k][5] + 1] + 1], M[msgPerm[KernelG[k][6] + 1] + 1]),
             M, msgPerm, k + 1)

\* the table stepped the other way: next[MSG_PERMUTATION[i]] = msgPerm[i]
nextMsgPermScatter(msgPerm) ==
    [j \in 1..16 |-> msgPerm[CHOOSE i \in 1..16 : MSG_PERMUTATION[i] = j - 1]]

\* msgPerm = MSG_PERMUTATION.map(i => msgPerm[i])
nextMsgPerm(msgPerm) == [i \in 1..16 |-> msgPerm[MSG_PERMUTATION[i] + 1]]

\* for (round < 7): the rounds from round on
RECURSIVE kernelRounds(_, _, _, _)
kernelRounds(S, M, msgPerm, round) ==
    IF round >= 7 \/ Len(S) # 16 \/ Len(msgPerm) # 16 THEN S
    ELSE kernelRounds(kernelRoundFrom(S, M, msgPerm, 1), M,
                      IF round < 6 THEN nextMsgPerm(msgPerm) ELSE msgPerm, round + 1)

\* v128.load at byte offset off of the memory
v128_load(mem, off) ==
    << mem[(off \div 4) + 1], mem[(off \div 4) + 2], mem[(off \div 4) + 3], mem[(off \div 4) + 4] >>

\* v128.const with IV[i] in its four lanes
ivSplat(i) == << IV[i + 1], IV[i + 1], IV[i + 1], IV[i + 1] >>

\* the state locals S(0..15) after the loads that open the kernel
kernelState(mem) ==
    [i \in 1..16 |->
        CASE i <= 8 -> v128_load(mem, (i - 1) * 16)
          [] i <= 12 -> ivSplat(i - 9)
          [] i = 13 -> v128_load(mem, 384)
          [] i = 14 -> v128_load(mem, 400)
          [] i = 15 -> v128_load(mem, 416)
          [] i = 16 -> v128_load(mem, 432)]

\* the message locals M(0..15)
kernelMessage(mem) == [i \in 1..16 |-> v128_load(mem, 128 + (i - 1) * 16)]

\* the eight v128.store at 448 + i * 16 of S(i) ^ S(i + 8): the words 112..143
kernelOutput(S) ==
    [w \in 1..32 |->
        v128_xor(S[((w - 1) \div 4) + 1], S[((w - 1) \div 4) + 9])[((w - 1) % 4) + 1]]

\* compress4x(0): the memory after the call
compress4xKernel(mem) ==
    SubSeq(mem, 1, 112)
    \o kernelOutput(kernelRounds(kernelState(mem), kernelMessage(mem),
                                 [i \in 1..16 |-> i - 1], 0))

\* transpose4xN(arrays, n, view, offset): the n * 4 words written from offset on
transpose4xN(arrays, n) == [w \in 1..(4 * n) |-> arrays[((w - 1) % 4) + 1][((w - 1) \div 4) + 1]]

\* an untranspose that takes each array from consecutive words
untransposeRows(mem, offset, n) ==
    [lane \in 1..4 |-> [i \in 1..n |-> mem[(offset \div 4) + (lane - 1) * n + i]]]

\* untranspose4xN(view, offset, n, arrays): the four arrays read back
untranspose4xN(mem, offset, n) ==
    [lane \in 1..4 |-> [i \in 1..n |-> mem[(offset \div 4) + (i - 1) * 4 + lane]]]

\* the memory compressSimd4x has laid out before it calls the kernel; the output
\* area is what the memory held (zero after new WebAssembly.Memory)
simdLayoutNum(c, nums) ==
    transpose4xN(c.cvs, 8) \o transpose4xN(c.messages, 16)
    \o [i \in 1..4 |-> counterLo(nums[i])]        \* setUint32(384 + i * 4, counters[i] | 0)
    \o [i \in 1..4 |-> counterHi(nums[i])]        \* (counters[i] / 0x100000000) | 0
    \o c.blockLens \o c.flags
    \o [w \in 1..32 |-> 0]

\* the same for counters below 2^31
simdLayout(c) == simdLayoutNum(c, [i \in 1..4 |-> NumOf(c.counters[i])])

\* compressSimd4x (lines 1065-1102): what it throws and the four outputs
compressSimd4x(c) ==
    IF ~wasmInstance \/ ~compress4x
    THEN [error |-> "WASM SIMD not initialized", out |-> << >>,
          st |-> StartState(ZeroBlock)]
    ELSE [error |-> "", out |-> untranspose4xN(compress4xKernel(simdLayout(c)), 448, 8),
          st |-> StartState(ZeroBlock)]
----------------------------------------------------------------------------
(* The calls explored.  Each behaviour makes one call; initWasmSimd may    *)
(* complete before it.                                                     *)

MaxChunks == 8        \* inputs of up to MaxChunks full chunks plus one byte
MaxOutputLen == 65    \* output lengths 0..MaxOutputLen
MaxKeyLen == 33       \* key lengths around the required 32
MaxWorkers == 3       \* pools of up to MaxWorkers workers
MaxInits == 2         \* init() calls of blake3-auto, which may overlap

Workers == 1..MaxWorkers

Bytes(len, pat, byteOffset) == [len |-> len, pat |-> pat, byteOffset |-> byteOffset]

NoBytes == Bytes(0, 0, 0)

Call(fn, input, outputLen, key, context) ==
    [fn |-> fn, input |-> input, outputLen |-> outputLen, key |-> key,
     context |-> context]

\* lengths around the block boundaries of one chunk
BlockLens == {0, 1, BLOCK_LEN - 1, BLOCK_LEN, BLOCK_LEN + 1, CHUNK_LEN - 1}

\* n full chunks, and n full chunks plus one byte
TreeLens == UNION {{n * CHUNK_LEN, n * CHUNK_LEN + 1} : n \in 1..MaxChunks}

\* the largest size of testSizes in src/bench.ts
BenchLen == 64 * CHUNK_LEN

SmallLens == {0, BLOCK_LEN + 1, CHUNK_LEN + 1}

OutputLens == 0..MaxOutputLen

KeyLens == {0, 31, 32, MaxKeyLen}

Key32 == Bytes(32, 1, 0)

HashCalls ==
    {Call("hash", Bytes(n, 0, 0), 32, NoBytes, NoBytes) :
        n \in BlockLens \cup TreeLens \cup {BenchLen}}
    \cup {Call("hash", Bytes(n, p, b), 32, NoBytes, NoBytes) :
        n \in {BLOCK_LEN, CHUNK_LEN, 2 * CHUNK_LEN + 1}, p \in {1, 2}, b \in {0, 2, 4}}
    \cup {Call("hash", Bytes(n, 0, 0), L, NoBytes, NoBytes) :
        n \in SmallLens, L \in OutputLens}

KeyedHashCalls ==
    {Call("keyedHash", Bytes(n, 0, 0), 32, Key32, NoBytes) : n \in BlockLens \cup TreeLens}
    \cup {Call("keyedHash", Bytes(n, 1, 0), L, Bytes(k, p, 0), NoBytes) :
        n \in SmallLens, L \in {0, 32, MaxOutputLen}, k \in KeyLens, p \in {0, 2}}

DeriveKeyCalls ==
    {Call("deriveKey", Bytes(n, 0, 0), L, NoBytes, Bytes(c, 3, 0)) :
        n \in BlockLens \cup {CHUNK_LEN, CHUNK_LEN + 1, 2 * CHUNK_LEN + 1},
        L \in {0, 32, MaxOutputLen},
        c \in {0, 47, BLOCK_LEN + 1, CHUNK_LEN, CHUNK_LEN + 1}}

WorkersCalls ==
    {Call("hashWorkersSync", Bytes(n, 0, 0), 32, NoBytes, NoBytes) :
        n \in BlockLens \cup TreeLens}

WasmCalls ==
    {Call("hashWasmSimd", Bytes(n, 0, 0), 32, NoBytes, NoBytes) :
        n \in BlockLens \cup TreeLens}

\* hashWorkers on inputs of 0, 1, 2, .. 5 chunks
PoolLens == {0, CHUNK_LEN, CHUNK_LEN + 1, 2 * CHUNK_LEN + 1, 3 * CHUNK_LEN,
             4 * CHUNK_LEN + 1}

PoolCalls ==
    {Call("hashWorkers", Bytes(n, 0, 0), 32, NoBytes, NoBytes) : n \in PoolLens}

\* the calls made in sequence: inputs that end in a partial block, whole blocks
\* read through the view and whole blocks read byte by byte (byteOffset 2)
SeqCalls ==
    {Call("hash", Bytes(n, 1, b), 32, NoBytes, NoBytes) :
        n \in {0, 1, BLOCK_LEN, CHUNK_LEN + 1}, b \in {0, 2}}
    \cup {Call("keyedHash", Bytes(n, 2, 0), 32, Bytes(k, 1, 0), NoBytes) :
        n \in {1, BLOCK_LEN + 1, CHUNK_LEN + 1}, k \in {31, 32}}
    \cup {Call("deriveKey", Bytes(n, 0, 0), 32, NoBytes, Bytes(c, 3, 0)) :
        n \in {1, BLOCK_LEN}, c \in {47, BLOCK_LEN + 1}}

\* compressSimd4x on four lanes: the message blocks are blocks of a generated
\* input, the CVs are IV or words of that input; with same, four copies of lane 0
SimdLane(pat, off, ctr, bl, fl, l) ==
    [cv |-> IF l = 0 THEN IV
            ELSE SubSeq(readBlock(Bytes(CHUNK_LEN, pat, 0), 512 + 32 * l, 32, ZeroBlock),
                        1, 8),
     m |-> readBlock(Bytes(CHUNK_LEN, pat, 0), off + BLOCK_LEN * l, bl, ZeroBlock),
     counter |-> ctr + l,
     blockLen |-> bl,
     flags |-> IF l = 0 THEN fl ELSE FlagOr(fl, l)]

SimdCall(pat, off, same, ctr, bl, fl) ==
    LET lane(k) == SimdLane(pat, off, ctr, bl, fl, IF same THEN 0 ELSE k - 1)
    IN [fn |-> "compressSimd4x",
        cvs |-> [k \in 1..4 |-> lane(k).cv],
        messages |-> [k \in 1..4 |-> lane(k).m],
        counters |-> [k \in 1..4 |-> lane(k).counter],
        blockLens |-> [k \in 1..4 |-> lane(k).blockLen],
        flags |-> [k \in 1..4 |-> lane(k).flags]]

SimdCalls ==
    {SimdCall(pat, off, same, ctr, bf[1], bf[2]) :
        pat \in {0, 1, 2}, off \in {0, BLOCK_LEN, 7 * BLOCK_LEN}, same \in BOOLEAN,
        ctr \in {0, 7},
        bf \in {<<BLOCK_LEN, CHUNK_START>>, <<BLOCK_LEN, 0>>,
                 <<3, FlagOr(FlagOr(CHUNK_START, CHUNK_END), ROOT)>>}}

Scenario(c, le, simd) == [call |-> c, le |-> le, simd |-> simd]

Scenarios ==
    {Scenario(c, TRUE, FALSE) :
        c \in HashCalls \cup KeyedHashCalls \cup DeriveKeyCalls \cup WorkersCalls}
    \cup {Scenario(c, FALSE, FALSE) : c \in {h \in HashCalls : h.input.pat = 1}}
    \cup {Scenario(c, TRUE, TRUE) : c \in WasmCalls}
    \cup {Scenario(c, TRUE, FALSE) : c \in {w \in WasmCalls : w.input.len <= 2 * CHUNK_LEN}}

----------------------------------------------------------------------------
(* The state machine *)

\* an init() call that has not been made
IdleInit ==
    [pc |-> "idle", forceJS |-> FALSE, threads |-> 0, outcome |-> "", returned |-> "",
     backendAtCall |-> "", threadCount |-> 0]

\* no blake3() call of blake3-auto yet
NoDispatch == [target |-> "", initialized |-> FALSE, backend |-> ""]

\* the packages after they are loaded, on the host e:
\* let backend = 'js', wasmModule = null, initialized = false (blake3-auto);
\* let wasm = null, initialized = false, threadCount = 0 (blake3-wasm)
PkgInitOn(e) ==
    /\ auto = [backend |-> "js", wasmModule |-> FALSE, initialized |-> FALSE]
    /\ wasmPkg = [wasm |-> FALSE, initialized |-> FALSE, threadCount |-> 0]
    /\ inits = [i \in 1..MaxInits |-> IdleInit]
    /\ env = e
    /\ lastBlake3 = NoDispatch
    /\ wasmInitialized = FALSE
    /\ workersInitialized = FALSE

PkgInit == PkgInitOn([load |-> "ok", sab |-> TRUE, hardwareConcurrency |-> 4])

\* the pool after the module is loaded: let workers = [], nothing in flight
PoolInit ==
    /\ workers = 0
    /\ numWorkers = 0
    /\ inbox = [w \in Workers |-> << >>]
    /\ outbox = [w \in Workers |-> << >>]
    /\ onmessage = [w \in Workers |-> 0]
    /\ promises = << >>
    /\ arrivals = << >>

Init ==
    \E s \in Scenarios :
        /\ pc = "ready"
        /\ call = s.call
        /\ IS_LITTLE_ENDIAN = s.le
        /\ simdSupported = s.simd
        /\ wasmInstance = FALSE
        /\ compress4x = FALSE
        /\ blockWordsBuffer = ZeroBlock
        /\ calls = << >>
        /\ tree = NoTree
        /\ result = << >>
        /\ error = ""
        /\ PoolInit
        /\ scratchBefore = ZeroBlock
        /\ PkgInit

\* initWasmSimd (blake3-workers.ts:1000-1031), completing before the call
InitWasmSimd ==
    /\ pc = "ready"
    /\ IF wasmInstance \/ ~simdSupported
       THEN UNCHANGED <<wasmInstance, compress4x>>
       ELSE wasmInstance' = TRUE /\ compress4x' = TRUE
    /\ UNCHANGED <<pc, call, IS_LITTLE_ENDIAN, simdSupported, blockWordsBuffer,
                   calls, tree, result, error, poolVars, scratchBefore, pkgVars>>

\* the call is over: h = [error, out, st] is what the function came to
Return(h) ==
    /\ calls' = h.st.calls
    /\ tree' = [stackLog |-> h.st.stackLog, merges |-> h.st.merges]
    /\ result' = h.out
    /\ error' = h.error
    /\ pc' = "done"
    /\ UNCHANGED <<call, IS_LITTLE_ENDIAN, simdSupported, wasmInstance, compress4x,
                   poolVars, scratchBefore, pkgVars>>

\* the functions of src/blake3.ts leave their last block in blockWordsBuffer
ReturnJS(h) == Return(h) /\ blockWordsBuffer' = h.st.buf

Hash ==
    /\ pc = "ready" /\ call.fn = "hash"
    /\ ReturnJS(hash(call.input, call.outputLen, StartState(blockWordsBuffer)))

KeyedHash ==
    /\ pc = "ready" /\ call.fn = "keyedHash"
    /\ ReturnJS(keyedHash(call.key, call.input, call.outputLen,
                          StartState(blockWordsBuffer)))

DeriveKey ==
    /\ pc = "ready" /\ call.fn = "deriveKey"
    /\ ReturnJS(deriveKey(call.context, call.input, call.outputLen,
                          StartState(blockWordsBuffer)))

\* the workers module's hash: its block buffer is a local
HashWorkersSync ==
    /\ pc = "ready" /\ call.fn = "hashWorkersSync"
    /\ Return(hashWorkersSync(call.input, call.outputLen, StartState(ZeroBlock)))
    /\ UNCHANGED blockWordsBuffer

HashWasmSimd ==
    /\ pc = "ready" /\ call.fn = "hashWasmSimd"
    /\ Return(hashWasmSimd(call.input, call.outputLen, StartState(ZeroBlock)))
    /\ UNCHANGED blockWordsBuffer

Next ==
    \/ InitWasmSimd
    \/ Hash
    \/ KeyedHash
    \/ DeriveKey
    \/ HashWorkersSync
    \/ HashWasmSimd

Spec == Init /\ [][Next]_vars


----------------------------------------------------------------------------
(* The worker pool: one hashWorkers call, the workers and the replies *)

InitPool ==
    \E c \in PoolCalls :
        /\ pc = "ready"
        /\ call = c
        /\ IS_LITTLE_ENDIAN = TRUE
        /\ simdSupported = FALSE
        /\ wasmInstance = FALSE
        /\ compress4x = FALSE
        /\ blockWordsBuffer = ZeroBlock
        /\ calls = << >>
        /\ tree = NoTree
        /\ result = << >>
        /\ error = ""
        /\ PoolInit
        /\ scratchBefore = ZeroBlock
        /\ PkgInit

\* initWorkers(count) before the call (lines 270-289): a pool of another size is
\* terminated and replaced by count new workers
InitWorkers ==
    /\ pc = "ready"
    /\ \E count \in Workers :
          IF workers = count
          THEN UNCHANGED poolVars
          ELSE /\ workers' = count
               /\ numWorkers' = count
               /\ inbox' = [w \in Workers |-> << >>]
               /\ outbox' = [w \in Workers |-> << >>]
               /\ onmessage' = [w \in Workers |-> 0]
               /\ UNCHANGED <<promises, arrivals>>
    /\ UNCHANGED <<pc, call, IS_LITTLE_ENDIAN, simdSupported, wasmInstance, compress4x,
                   blockWordsBuffer, calls, tree, result, error, scratchBefore, pkgVars>>

\* hashWorkers up to its await (lines 341-407): the single-threaded branch returns;
\* otherwise each worker used gets its handler and its task
HashWorkers ==
    /\ pc = "ready" /\ call.fn = "hashWorkers"
    /\ IF call.input.len <= CHUNK_LEN \/ workers = 0
       THEN /\ Return(hashWorkersSingle(call.input, call.outputLen,
                                        StartState(ZeroBlock)))
            /\ UNCHANGED blockWordsBuffer
       ELSE LET tasks == dispatch(call.input, CeilDiv(call.input.len, CHUNK_LEN),
                                  workers, 0)
            IN /\ inbox' = [w \in Workers |->
                              IF w <= Len(tasks) THEN Append(inbox[w], tasks[w])
                              ELSE inbox[w]]
               /\ onmessage' = [w \in Workers |->
                                  IF w <= Len(tasks) THEN w ELSE onmessage[w]]
               /\ promises' = [k \in 1..Len(tasks) |-> Pending]
               /\ pc' = "awaiting"
               /\ UNCHANGED <<call, IS_LITTLE_ENDIAN, simdSupported, wasmInstance,
                              compress4x, blockWordsBuffer, calls, tree, result, error,
                              workers, numWorkers, outbox, arrivals,
                              scratchBefore, pkgVars>>

\* self.onmessage in worker w (lines 224-259): the task at the head of its queue
WorkerOnMessage(w) ==
    /\ w <= workers
    /\ inbox[w] # << >>
    /\ outbox' = [outbox EXCEPT ![w] = Append(@, workerReply(Head(inbox[w])))]
    /\ inbox' = [inbox EXCEPT ![w] = Tail(@)]
    /\ UNCHANGED <<pc, call, IS_LITTLE_ENDIAN, simdSupported, wasmInstance, compress4x,
                   blockWordsBuffer, calls, tree, result, error, workers, numWorkers,
                   onmessage,
                   promises, arrivals, scratchBefore, pkgVars>>

\* worker.onmessage = (e) => resolve(e.data) on the main thread (lines 391-393),
\* for the oldest reply of worker w; resolving a settled promise changes nothing
MainOnMessage(w) ==
    /\ w <= workers
    /\ outbox[w] # << >>
    /\ outbox' = [outbox EXCEPT ![w] = Tail(@)]
    /\ arrivals' = Append(arrivals, w)
    /\ IF onmessage[w] # 0 /\ ~Settled(promises[onmessage[w]])
       THEN promises' = [promises EXCEPT ![onmessage[w]] = Head(outbox[w])]
       ELSE UNCHANGED promises
    /\ UNCHANGED <<pc, call, IS_LITTLE_ENDIAN, simdSupported, wasmInstance, compress4x,
                   blockWordsBuffer, calls, tree, result, error, workers, numWorkers,
                   inbox, onmessage,
                   scratchBefore, pkgVars>>

\* hashWorkers after the await (lines 407-447), once every promise is settled
HashWorkersResume ==
    /\ pc = "awaiting"
    /\ \A k \in 1..Len(promises) : Settled(promises[k])
    /\ Return(hashWorkersJoin(promises, call.outputLen, StartState(ZeroBlock)))
    /\ UNCHANGED blockWordsBuffer

NextPool ==
    \/ InitWorkers
    \/ HashWorkers
    \/ \E w \in Workers : WorkerOnMessage(w)
    \/ \E w \in Workers : MainOnMessage(w)
    \/ HashWorkersResume

SpecPool == InitPool /\ [][NextPool]_vars

----------------------------------------------------------------------------
(* Calls in sequence: the functions of src/blake3.ts called one after the   *)
(* other, each finding in blockWordsBuffer what the previous one left.      *)

InitSeq ==
    \E c \in SeqCalls :
        /\ pc = "ready"
        /\ call = c
        /\ IS_LITTLE_ENDIAN = TRUE
        /\ simdSupported = FALSE
        /\ wasmInstance = FALSE
        /\ compress4x = FALSE
        /\ blockWordsBuffer = ZeroBlock
        /\ calls = << >>
        /\ tree = NoTree
        /\ result = << >>
        /\ error = ""
        /\ PoolInit
        /\ scratchBefore = ZeroBlock
        /\ PkgInit

\* the caller goes on to its next call once the last one has returned or thrown
NextCall ==
    /\ pc = "done"
    /\ \E c \in SeqCalls : call' = c
    /\ pc' = "ready"
    /\ calls' = << >>
    /\ tree' = NoTree
    /\ result' = << >>
    /\ error' = ""
    /\ scratchBefore' = blockWordsBuffer
    /\ UNCHANGED <<IS_LITTLE_ENDIAN, simdSupported, wasmInstance, compress4x,
                   blockWordsBuffer, poolVars, pkgVars>>

NextSeq ==
    \/ Hash
    \/ KeyedHash
    \/ DeriveKey
    \/ NextCall

SpecSeq == InitSeq /\ [][NextSeq]_vars

----------------------------------------------------------------------------
(* The 4-way kernel: initWasmSimd and one compressSimd4x call *)

InitSimd ==
    \E c \in SimdCalls, simd \in BOOLEAN :
        /\ pc = "ready"
        /\ call = c
        /\ IS_LITTLE_ENDIAN = TRUE
        /\ simdSupported = simd
        /\ wasmInstance = FALSE
        /\ compress4x = FALSE
        /\ blockWordsBuffer = ZeroBlock
        /\ calls = << >>
        /\ tree = NoTree
        /\ result = << >>
        /\ error = ""
        /\ PoolInit
        /\ scratchBefore = ZeroBlock
        /\ PkgInit

CompressSimd4x ==
    /\ pc = "ready" /\ call.fn = "compressSimd4x"
    /\ Return(compressSimd4x(call))
    /\ UNCHANGED blockWordsBuffer

NextSimd ==
    \/ InitWasmSimd
    \/ CompressSimd4x

SpecSimd == InitSimd /\ [][NextSimd]_vars

----------------------------------------------------------------------------
(* The packages @rotko/blake3-auto (src/packages/blake3-auto/dist/index.js) *)
(* and @rotko/blake3-wasm (src/packages/blake3-wasm/src/index.js).  An      *)
(* init() call of blake3-auto runs up to its next await in one step; calls  *)
(* may overlap.  The generated WASM glue (./wasm/blake3_wasm.js) is the     *)
(* host's: whether each import succeeds is fixed by env, whether            *)
(* initThreadPool resolves is open at each call.                            *)

\* where the package load fails, if it does
Loads == {"ok", "packageImportFails", "wasmImportFails", "instantiateFails"}

Envs ==
    {[load |-> l, sab |-> s, hardwareConcurrency |-> 4] : l \in Loads, s \in BOOLEAN}

\* the options of an init() call: forceJS, and threads (0: not given)
InitOptions == {[forceJS |-> f, threads |-> t] : f \in BOOLEAN, t \in {0, 2}}

InitAuto ==
    \E e \in Envs :
        /\ pc = "ready"
        /\ call = Call("blake3", NoBytes, 32, NoBytes, NoBytes)
        /\ IS_LITTLE_ENDIAN = TRUE
        /\ simdSupported = FALSE
        /\ wasmInstance = FALSE
        /\ compress4x = FALSE
        /\ blockWordsBuffer = ZeroBlock
        /\ calls = << >>
        /\ tree = NoTree
        /\ result = << >>
        /\ error = ""
        /\ PoolInit
        /\ scratchBefore = ZeroBlock
        /\ PkgInitOn(e)

\* backend = 'wasm-rayon' whatever the thread count
selectRayonAlways(threadCount) == "wasm-rayon"

\* if (wasm.getThreadCount() > 0) backend = 'wasm-rayon'; else backend = 'wasm'
selectBackend(threadCount) == IF threadCount > 0 THEN "wasm-rayon" ELSE "wasm"

\* threads || navigator.hardwareConcurrency || 4
numThreadsOf(threads) ==
    IF threads # 0 THEN threads
    ELSE IF env.hardwareConcurrency # 0 THEN env.hardwareConcurrency ELSE 4

\* the init() call c of blake3-auto returns r
returned(c, outcome, r) ==
    [c EXCEPT !.pc = "done", !.outcome = outcome, !.returned = r]

\* init(options) of blake3-auto up to its first await (lines 20-31)
AutoInit(i) ==
    /\ inits[i].pc = "idle"
    /\ \E o \in InitOptions :
         LET c == [inits[i] EXCEPT !.forceJS = o.forceJS, !.threads = o.threads,
                                   !.backendAtCall = auto.backend]
         IN IF auto.initialized
            THEN /\ inits' = [inits EXCEPT ![i] = returned(c, "initialized", auto.backend)]
                 /\ UNCHANGED auto
            ELSE IF o.forceJS
            THEN /\ auto' = [auto EXCEPT !.backend = "js", !.initialized = TRUE]
                 /\ inits' = [inits EXCEPT ![i] = returned(c, "forceJS", "js")]
            ELSE /\ inits' = [inits EXCEPT ![i] = [c EXCEPT !.pc = "import"]]
                 /\ UNCHANGED auto
    /\ UNCHANGED <<wasmPkg, env, lastBlake3, hashVars, apiVars>>

\* after await import('@rotko/blake3-wasm'): a failed import goes to the catch;
\* otherwise wasm.init(options.threads) runs up to its first await
\* (blake3-wasm lines 16-19)
AutoInitImported(i) ==
    /\ inits[i].pc = "import"
    /\ inits' = [inits EXCEPT ![i].pc =
                    IF env.load = "packageImportFails" THEN "rejected"
                    ELSE IF wasmPkg.initialized THEN "resolved"
                    ELSE "wasmImport"]
    /\ UNCHANGED <<auto, wasmPkg, env, lastBlake3, hashVars, apiVars>>

\* wasm.init after await import('./wasm/blake3_wasm.js') (lines 19-20)
WasmInitImported(i) ==
    /\ inits[i].pc = "wasmImport"
    /\ inits' = [inits EXCEPT ![i].pc =
                    IF env.load = "wasmImportFails" THEN "rejected" ELSE "instantiate"]
    /\ UNCHANGED <<auto, wasmPkg, env, lastBlake3, hashVars, apiVars>>

\* wasm.init after await module.default() (lines 20-28 and 36): wasm = module, then
\* the thread pool is started if SharedArrayBuffer exists
WasmInitInstantiated(i) ==
    /\ inits[i].pc = "instantiate"
    /\ IF env.load = "instantiateFails"
       THEN /\ inits' = [inits EXCEPT ![i].pc = "rejected"]
            /\ UNCHANGED wasmPkg
       ELSE IF env.sab
       THEN /\ inits' = [inits EXCEPT ![i].pc = "threadPool"]
            /\ wasmPkg' = [wasmPkg EXCEPT !.wasm = TRUE]
       ELSE /\ inits' = [inits EXCEPT ![i].pc = "resolved"]
            /\ wasmPkg' = [wasmPkg EXCEPT !.wasm = TRUE, !.initialized = TRUE]
    /\ UNCHANGED <<auto, env, lastBlake3, hashVars, apiVars>>

\* wasm.init after await wasm.initThreadPool(numThreads) (lines 28-36): the pool
\* has numThreads threads, or the call was rejected
WasmInitPoolSettled(i) ==
    /\ inits[i].pc = "threadPool"
    /\ \E ok \in BOOLEAN :
         wasmPkg' = [wasmPkg EXCEPT
                        !.threadCount = IF ok THEN numThreadsOf(inits[i].threads) ELSE 0,
                        !.initialized = TRUE]
    /\ inits' = [inits EXCEPT ![i].pc = "resolved"]
    /\ UNCHANGED <<auto, env, lastBlake3, hashVars, apiVars>>

\* init of blake3-auto after await wasm.init(..) (lines 33-45)
AutoInitResume(i) ==
    /\ inits[i].pc = "resolved"
    /\ auto' = [backend |-> selectBackend(wasmPkg.threadCount), wasmModule |-> TRUE,
                initialized |-> TRUE]
    /\ inits' = [inits EXCEPT ![i] =
                    returned([@ EXCEPT !.threadCount = wasmPkg.threadCount], "loaded",
                             selectBackend(wasmPkg.threadCount))]
    /\ UNCHANGED <<wasmPkg, env, lastBlake3, hashVars, apiVars>>

\* catch (e) { backend = 'js' }, then initialized = true (lines 40-45)
AutoInitCatch(i) ==
    /\ inits[i].pc = "rejected"
    /\ auto' = [auto EXCEPT !.backend = "js", !.initialized = TRUE]
    /\ inits' = [inits EXCEPT ![i] = returned(@, "failed", "js")]
    /\ UNCHANGED <<wasmPkg, env, lastBlake3, hashVars, apiVars>>

\* the function blake3(input, outputLength) of blake3-auto calls (lines 54-66)
dispatchTarget ==
    IF ~auto.initialized THEN "blake3JS"
    ELSE IF auto.backend = "wasm-rayon" /\ auto.wasmModule THEN "wasmModule.blake3Parallel"
    ELSE IF auto.backend = "wasm" /\ auto.wasmModule THEN "wasmModule.blake3"
    ELSE "blake3JS"

\* a blake3() call of blake3-auto
AutoBlake3 ==
    /\ lastBlake3' = [target |-> dispatchTarget, initialized |-> auto.initialized,
                    backend |-> auto.backend]
    /\ UNCHANGED <<auto, wasmPkg, inits, env, hashVars, apiVars>>

NextAuto ==
    \/ \E i \in 1..MaxInits : AutoInit(i)
    \/ \E i \in 1..MaxInits : AutoInitImported(i)
    \/ \E i \in 1..MaxInits : WasmInitImported(i)
    \/ \E i \in 1..MaxInits : WasmInitInstantiated(i)
    \/ \E i \in 1..MaxInits : WasmInitPoolSettled(i)
    \/ \E i \in 1..MaxInits : AutoInitResume(i)
    \/ \E i \in 1..MaxInits : AutoInitCatch(i)
    \/ AutoBlake3

SpecAuto == InitAuto /\ [][NextAuto]_vars
----------------------------------------------------------------------------
(* compress on its own.  The calls are those processChunk and mergeParents *)
(* make: processChunk passes its local cv and the scratch block buffer,    *)
(* mergeParents passes the module constant IV itself and a local block.    *)
(* call.cv and call.m are the argument arrays, call.before their contents  *)
(* when the call is made.                                                  *)

CompressCall(caller, cv, m, counter, blockLen, flags) ==
    [fn |-> "compress", caller |-> caller, cv |-> cv, m |-> m, counter |-> counter,
     blockLen |-> blockLen, flags |-> flags, before |-> [cv |-> cv, m |-> m]]

\* words of a generated input, as a block of bl bytes read at off
BlockAt(pat, off, bl) == readBlock(Bytes(CHUNK_LEN, pat, 0), off, bl, ZeroBlock)

\* the counters tried: small ones and the largest the model writes
CompressCounters == {0, 1, 7, 2147483647}

CompressCalls ==
    {CompressCall("processChunk", cv, BlockAt(pat, off, bf[1]), ctr, bf[1], bf[2]) :
        cv \in {IV, SubSeq(BlockAt(2, 3 * BLOCK_LEN, BLOCK_LEN), 1, 8)},
        pat \in {0, 1, 2}, off \in {0, 9 * BLOCK_LEN},
        ctr \in CompressCounters,
        bf \in {<<BLOCK_LEN, CHUNK_START>>, <<BLOCK_LEN, 0>>, <<BLOCK_LEN, CHUNK_END>>,
                 <<0, FlagOr(FlagOr(CHUNK_START, CHUNK_END), ROOT)>>,
                 <<3, FlagOr(KEYED_HASH, CHUNK_END)>>,
                 <<1, FlagOr(DERIVE_KEY_MATERIAL, FlagOr(CHUNK_END, ROOT))>>}}
    \cup {CompressCall("mergeParents", IV, BlockAt(pat, off, BLOCK_LEN), 0, BLOCK_LEN, fl) :
        pat \in {0, 1, 2}, off \in {0, BLOCK_LEN, 9 * BLOCK_LEN},
        fl \in {PARENT, FlagOr(PARENT, ROOT)}}

InitCompress ==
    \E c \in CompressCalls :
        /\ pc = "ready"
        /\ call = c
        /\ IS_LITTLE_ENDIAN = TRUE
        /\ simdSupported = FALSE
        /\ wasmInstance = FALSE
        /\ compress4x = FALSE
        /\ blockWordsBuffer = ZeroBlock
        /\ calls = << >>
        /\ tree = NoTree
        /\ result = << >>
        /\ error = ""
        /\ PoolInit
        /\ scratchBefore = ZeroBlock
        /\ PkgInit

\* the call returns: result is the array returned, call.cv and call.m are the
\* argument arrays as the call left them
CompressReturn(r) ==
    /\ result' = r.out
    /\ call' = [call EXCEPT !.cv = r.cv, !.m = r.m]
    /\ pc' = "done"
    /\ UNCHANGED <<IS_LITTLE_ENDIAN, simdSupported, wasmInstance, compress4x,
                   blockWordsBuffer, calls, tree, error, poolVars, scratchBefore, pkgVars>>

Compress ==
    /\ pc = "ready" /\ call.fn = "compress"
    /\ CompressReturn(compressCall(call.cv, call.m, call.counter, call.blockLen,
                                   call.flags))

NextCompress == Compress

SpecCompress == InitCompress /\ [][NextCompress]_vars

----------------------------------------------------------------------------
(* The message schedule, round by round.  compress runs its round loop     *)
(* (src/blake3.ts:54-103) on the state and its sixteen message variables;  *)
(* generateWasmModule runs its own loop (blake3-workers.ts:886-903), which *)
(* emits the eight G of a round with the message locals that msgPerm names *)
(* and then steps msgPerm.  result holds both loops: round, s and m for    *)
(* compress, genRound and msgPerm for the generator.                       *)

ScheduleCalls ==
    {c \in CompressCalls : c.counter = 7 \/ c.caller = "mergeParents"}

\* let msgPerm = [0, 1, 2, .., 15] (line 801)
identityPerm == [i \in 1..16 |-> i - 1]

InitSchedule ==
    \E c \in ScheduleCalls :
        /\ pc = "ready"
        /\ call = c
        /\ IS_LITTLE_ENDIAN = TRUE
        /\ simdSupported = TRUE
        /\ wasmInstance = FALSE
        /\ compress4x = FALSE
        /\ blockWordsBuffer = ZeroBlock
        /\ calls = << >>
        /\ tree = NoTree
        /\ result = [round |-> 0,
                     s |-> initialState(stateArgs(c.cv, c.m, NumOf(c.counter), c.blockLen,
                                                 c.flags)),
                     m |-> c.m,
                     genRound |-> 0,
                     msgPerm |-> identityPerm]
        /\ error = ""
        /\ PoolInit
        /\ scratchBefore = ZeroBlock
        /\ PkgInit

ScheduleUnchanged ==
    UNCHANGED <<call, IS_LITTLE_ENDIAN, simdSupported, wasmInstance, compress4x,
                blockWordsBuffer, calls, tree, error, poolVars, scratchBefore, pkgVars>>

\* one iteration of the round loop of compress: the eight G, then, if (i < 6),
\* the permutation of the message variables
CompressRound ==
    /\ pc = "ready" /\ call.fn = "compress" /\ result.round < 7
    /\ result' = [result EXCEPT !.round = @ + 1,
                                !.s = Round(result.s, result.m),
                                !.m = IF result.round < 6 THEN PermuteMsg(@) ELSE @]
    /\ pc' = pc
    /\ ScheduleUnchanged

\* one iteration of the round loop of generateWasmModule: the eight emitGFb, then,
\* if (round < 6), msgPerm = MSG_PERMUTATION.map(i => msgPerm[i])
KernelRoundEmitted ==
    /\ pc = "ready" /\ call.fn = "compress" /\ result.genRound < 7
    /\ result' = [result EXCEPT !.genRound = @ + 1,
                                !.msgPerm = IF result.genRound < 6 THEN nextMsgPerm(@)
                                            ELSE @]
    /\ pc' = pc
    /\ ScheduleUnchanged

\* both loops are over
ScheduleDone ==
    /\ pc = "ready" /\ call.fn = "compress"
    /\ result.round = 7 /\ result.genRound = 7
    /\ pc' = "done"
    /\ UNCHANGED result
    /\ ScheduleUnchanged

NextSchedule ==
    \/ CompressRound
    \/ KernelRoundEmitted
    \/ ScheduleDone

SpecSchedule == InitSchedule /\ [][NextSchedule]_vars

----------------------------------------------------------------------------
(* readBlock and readBlockFastLE on their own (src/blake3.ts:111-136).     *)
(* blockWordsBuffer is the array passed as out, scratchBefore what it held *)
(* when the call was made; result is <<>> for readBlock, which returns     *)
(* nothing, and the value returned for readBlockFastLE.                    *)

ReadCall(fn, input, offset, length) ==
    [fn |-> fn, input |-> input, offset |-> offset, length |-> length]

ReadInputs ==
    {Bytes(len, pat, b) : len \in {0, 1, 3, BLOCK_LEN, BLOCK_LEN + 1, 2 * BLOCK_LEN + 2},
                          pat \in {1, 2}, b \in {0, 1, 2, 4}}

\* the calls the chunk loops make: the bytes asked for lie within the input
ReadCalls ==
    {c \in {ReadCall("readBlock", input, offset, length) :
               input \in ReadInputs, offset \in {0, 1, 4, BLOCK_LEN},
               length \in {0, 1, 3, 4, 5, BLOCK_LEN - 1, BLOCK_LEN}} :
        c.offset + c.length <= c.input.len}
    \cup {ReadCall("readBlockFastLE", input, offset, BLOCK_LEN) :
               input \in ReadInputs, offset \in {0, 2, 4, BLOCK_LEN}}

\* what out may hold before the call: zeros, or a block without a zero word
OutBefore == {ZeroBlock, readBlock(Bytes(BLOCK_LEN, 2, 0), 0, BLOCK_LEN, ZeroBlock)}

InitRead ==
    \E c \in ReadCalls, out \in OutBefore, le \in BOOLEAN :
        /\ pc = "ready"
        /\ call = c
        /\ IS_LITTLE_ENDIAN = le
        /\ simdSupported = FALSE
        /\ wasmInstance = FALSE
        /\ compress4x = FALSE
        /\ blockWordsBuffer = out
        /\ calls = << >>
        /\ tree = NoTree
        /\ result = << >>
        /\ error = ""
        /\ PoolInit
        /\ scratchBefore = out
        /\ PkgInit

ReadUnchanged ==
    UNCHANGED <<call, IS_LITTLE_ENDIAN, simdSupported, wasmInstance, compress4x,
                calls, tree, error, poolVars, scratchBefore, pkgVars>>

ReadBlock ==
    /\ pc = "ready" /\ call.fn = "readBlock"
    /\ blockWordsBuffer' = readBlock(call.input, call.offset, call.length, blockWordsBuffer)
    /\ result' = << >>
    /\ pc' = "done"
    /\ ReadUnchanged

ReadBlockFastLE ==
    /\ pc = "ready" /\ call.fn = "readBlockFastLE"
    /\ LET r == readBlockFastLE(call.input, call.offset, blockWordsBuffer)
       IN /\ blockWordsBuffer' = r.out
          /\ result' = << r.ok >>
    /\ pc' = "done"
    /\ ReadUnchanged

NextRead ==
    \/ ReadBlock
    \/ ReadBlockFastLE

SpecRead == InitRead /\ [][NextRead]_vars

----------------------------------------------------------------------------
(* compress and compressSimd4x with counters of any size.  call.counter is *)
(* a number given by its 16-bit digits; result holds the counter words the *)
(* function set (s_12 and s_13, or the lanes at 384 and 400 of the WASM    *)
(* memory) and what it returned.                                           *)

\* 0, 1, 2^31 - 1, 2^31, 2^32 - 1, 2^32, 2^32 + 2^31 + 5, 2^48 + 3, 2^53 - 1, 2^63
CounterNums ==
    { << 0, 0, 0, 0 >>, << 1, 0, 0, 0 >>, << 65535, 32767, 0, 0 >>, << 0, 32768, 0, 0 >>,
      << 65535, 65535, 0, 0 >>, << 0, 0, 1, 0 >>, << 5, 32768, 1, 0 >>, << 3, 0, 0, 1 >>,
      << 65535, 65535, 65535, 31 >>, << 0, 0, 0, 32768 >> }

CompressCounterCalls ==
    {[fn |-> "compress", cv |-> IV, m |-> BlockAt(pat, 0, bf[1]), counter |-> n,
      blockLen |-> bf[1], flags |-> bf[2]] :
        pat \in {0, 1}, n \in CounterNums,
        bf \in {<<BLOCK_LEN, CHUNK_START>>, <<BLOCK_LEN, 0>>, <<3, CHUNK_END>>}}

Simd4xCounterCalls ==
    {[fn |-> "compressSimd4x", cvs |-> [k \in 1..4 |-> IV],
      messages |-> [k \in 1..4 |-> BlockAt(pat, (k - 1) * BLOCK_LEN, BLOCK_LEN)],
      counters |-> << n, n, other, n >>,
      blockLens |-> [k \in 1..4 |-> BLOCK_LEN],
      flags |-> [k \in 1..4 |-> fl]] :
        pat \in {0, 1}, n \in CounterNums, other \in {<< 0, 0, 1, 0 >>, << 7, 0, 0, 0 >>},
        fl \in {CHUNK_START, 0}}

\* initWasmSimd has completed: compressSimd4x does not throw
InitCounter ==
    /\ \/ \E c \in CompressCounterCalls : call = c
       \/ \E c \in Simd4xCounterCalls : call = c
    /\ pc = "ready"
    /\ IS_LITTLE_ENDIAN = TRUE
    /\ simdSupported = TRUE
    /\ wasmInstance = TRUE
    /\ compress4x = TRUE
    /\ blockWordsBuffer = ZeroBlock
    /\ calls = << >>
    /\ tree = NoTree
    /\ result = << >>
    /\ error = ""
    /\ PoolInit
    /\ scratchBefore = ZeroBlock
    /\ PkgInit

CounterReturn(r) ==
    /\ result' = r
    /\ pc' = "done"
    /\ UNCHANGED <<call, IS_LITTLE_ENDIAN, simdSupported, wasmInstance, compress4x,
                   blockWordsBuffer, calls, tree, error, poolVars, scratchBefore, pkgVars>>

\* compress: s_12 and s_13 as lines 44-47 set them, and the array returned
CompressCounter ==
    /\ pc = "ready" /\ call.fn = "compress"
    /\ LET x == stateArgs(call.cv, call.m, call.counter, call.blockLen, call.flags)
       IN CounterReturn([lo |-> << initialState(x)[13] >>,
                         hi |-> << initialState(x)[14] >>,
                         out |-> << compressFn[x] >>])

\* compressSimd4x: the lanes written at 384 and 400 (lines 1091-1097), and the
\* four outputs read back
CompressSimd4xCounter ==
    /\ pc = "ready" /\ call.fn = "compressSimd4x"
    /\ LET mem == simdLayoutNum(call, call.counters)
       IN CounterReturn([lo |-> v128_load(mem, 384),
                         hi |-> v128_load(mem, 400),
                         out |-> untranspose4xN(compress4xKernel(mem), 448, 8)])

NextCounter ==
    \/ CompressCounter
    \/ CompressSimd4xCounter

SpecCounter == InitCounter /\ [][NextCounter]_vars

----------------------------------------------------------------------------
(* Two hashWorkers calls on one pool.  The caller makes the calls without  *)
(* awaiting the first, so both may be in flight together.  pc, call,       *)
(* promises and result hold one entry per call; onmessage[w] = <<i, k>>    *)
(* says that the handler of worker w resolves promise k of call i (<<0, 0>>*)
(* for no handler).                                                        *)

TwoCalls == 1..2

\* pairs of calls on inputs of two and three chunks with different contents
CallPairs ==
    {<< Call("hashWorkers", Bytes(a[1], a[2], 0), 32, NoBytes, NoBytes),
        Call("hashWorkers", Bytes(b[1], b[2], 0), 32, NoBytes, NoBytes) >> :
        a \in {<< CHUNK_LEN + 1, 0 >>, << 2 * CHUNK_LEN + 1, 0 >>},
        b \in {<< CHUNK_LEN + 1, 1 >>, << 2 * CHUNK_LEN + 1, 1 >>, << 1, 1 >>}}

\* initWorkers(count) has run before the calls
InitTwoCalls ==
    \E cs \in CallPairs, count \in 1..2 :
        /\ pc = << "ready", "ready" >>
        /\ call = cs
        /\ IS_LITTLE_ENDIAN = TRUE
        /\ simdSupported = FALSE
        /\ wasmInstance = FALSE
        /\ compress4x = FALSE
        /\ blockWordsBuffer = ZeroBlock
        /\ calls = << >>
        /\ tree = NoTree
        /\ result = << << >>, << >> >>
        /\ error = ""
        /\ workers = count
        /\ numWorkers = count
        /\ inbox = [w \in Workers |-> << >>]
        /\ outbox = [w \in Workers |-> << >>]
        /\ onmessage = [w \in Workers |-> << 0, 0 >>]
        /\ promises = << << >>, << >> >>
        /\ arrivals = << >>
        /\ scratchBefore = ZeroBlock
        /\ PkgInit

TwoCallsUnchanged ==
    UNCHANGED <<call, IS_LITTLE_ENDIAN, simdSupported, wasmInstance, compress4x,
                blockWordsBuffer, calls, tree, error, workers, numWorkers,
                scratchBefore, pkgVars>>

\* hashWorkers up to its await (lines 341-407) for call i, made once the calls
\* before it have been made
HashWorkersOf(i) ==
    /\ pc[i] = "ready"
    /\ \A j \in 1..(i - 1) : pc[j] # "ready"
    /\ IF call[i].input.len <= CHUNK_LEN \/ workers = 0
       THEN /\ result' = [result EXCEPT ![i] =
                            hashWorkersSingle(call[i].input, call[i].outputLen,
                                              StartState(ZeroBlock)).out]
            /\ pc' = [pc EXCEPT ![i] = "done"]
            /\ UNCHANGED <<inbox, outbox, onmessage, promises, arrivals>>
       ELSE LET tasks == dispatch(call[i].input, CeilDiv(call[i].input.len, CHUNK_LEN),
                                  workers, 0)
            IN /\ inbox' = [w \in Workers |->
                              IF w <= Len(tasks) THEN Append(inbox[w], tasks[w])
                              ELSE inbox[w]]
               /\ onmessage' = [w \in Workers |->
                                  IF w <= Len(tasks) THEN << i, w >> ELSE onmessage[w]]
               /\ promises' = [promises EXCEPT ![i] = [k \in 1..Len(tasks) |-> Pending]]
               /\ pc' = [pc EXCEPT ![i] = "awaiting"]
               /\ UNCHANGED <<result, outbox, arrivals>>
    /\ TwoCallsUnchanged

\* the handler of worker w on the main thread (lines 391-393), as set by the last
\* call that used the worker, for the oldest reply of w
MainOnMessageOf(w) ==
    /\ w <= workers
    /\ outbox[w] # << >>
    /\ outbox' = [outbox EXCEPT ![w] = Tail(@)]
    /\ arrivals' = Append(arrivals, w)
    /\ IF onmessage[w][1] # 0 /\ ~Settled(promises[onmessage[w][1]][onmessage[w][2]])
       THEN promises' = [promises EXCEPT ![onmessage[w][1]][onmessage[w][2]] =
                            Head(outbox[w])]
       ELSE UNCHANGED promises
    /\ UNCHANGED <<pc, result, inbox, onmessage>>
    /\ TwoCallsUnchanged

\* call i after its await (lines 407-447), once each of its promises is settled
HashWorkersResumeOf(i) ==
    /\ pc[i] = "awaiting"
    /\ \A k \in 1..Len(promises[i]) : Settled(promises[i][k])
    /\ result' = [result EXCEPT ![i] =
                     hashWorkersJoin(promises[i], call[i].outputLen,
                                     StartState(ZeroBlock)).out]
    /\ pc' = [pc EXCEPT ![i] = "done"]
    /\ UNCHANGED <<inbox, outbox, onmessage, promises, arrivals>>
    /\ TwoCallsUnchanged

NextTwoCalls ==
    \/ \E i \in TwoCalls : HashWorkersOf(i)
    \/ \E w \in Workers : WorkerOnMessage(w)
    \/ \E w \in Workers : MainOnMessageOf(w)
    \/ \E i \in TwoCalls : HashWorkersResumeOf(i)

SpecTwoCalls == InitTwoCalls /\ [][NextTwoCalls]_vars


----------------------------------------------------------------------------
(* The pool torn down while a hashWorkers call may be in flight.  The event *)
(* loop delivers every message event it has queued and runs the continuation *)
(* of an await whose promise is settled, hence the weak fairness below.      *)

\* terminateWorkers() (lines 294-305), called before dispatch or during the await
\* of line 407: worker.terminate() discards the worker's queued tasks and what it
\* was running; its replies not yet dispatched to the main thread are lost with it
\* (a reply dispatched is one MainOnMessage took before this step)
TerminateWorkers ==
    /\ pc \in {"ready", "awaiting"}
    /\ workers' = 0
    /\ numWorkers' = 0
    /\ inbox' = [w \in Workers |-> << >>]
    /\ outbox' = [w \in Workers |-> << >>]
    /\ onmessage' = [w \in Workers |-> 0]
    /\ UNCHANGED <<pc, call, IS_LITTLE_ENDIAN, simdSupported, wasmInstance, compress4x,
                   blockWordsBuffer, calls, tree, result, error, promises, arrivals,
                   scratchBefore, pkgVars>>

\* initWorkers(count) during the await of line 407 (lines 270-289): a pool of
\* another size is terminated (line 277) and replaced by count new workers, which
\* have no handler and no task
InitWorkersInFlight ==
    /\ pc = "awaiting"
    /\ \E count \in Workers :
          IF workers = count
          THEN UNCHANGED poolVars
          ELSE /\ workers' = count
               /\ numWorkers' = count
               /\ inbox' = [w \in Workers |-> << >>]
               /\ outbox' = [w \in Workers |-> << >>]
               /\ onmessage' = [w \in Workers |-> 0]
               /\ UNCHANGED <<promises, arrivals>>
    /\ UNCHANGED <<pc, call, IS_LITTLE_ENDIAN, simdSupported, wasmInstance, compress4x,
                   blockWordsBuffer, calls, tree, result, error, scratchBefore, pkgVars>>

NextTeardown ==
    \/ InitWorkers
    \/ HashWorkers
    \/ \E w \in Workers : WorkerOnMessage(w)
    \/ \E w \in Workers : MainOnMessage(w)
    \/ HashWorkersResume
    \/ TerminateWorkers
    \/ InitWorkersInFlight

\* worker w has a task queued / every promise of the await of line 407 is settled
TaskQueued(w) == w <= workers /\ inbox[w] # << >>

AllSettled == pc = "awaiting" /\ \A k \in 1..Len(promises) : Settled(promises[k])

\* The event loop dispatches a queued message event and runs the continuation of
\* a settled await: weak fairness of WorkerOnMessage(w), MainOnMessage(w) and
\* HashWorkersResume, the first and the last written out with their enabling
\* conditions TaskQueued(w) and AllSettled.
SpecTeardown ==
    /\ InitPool
    /\ [][NextTeardown]_vars
    /\ \A w \in Workers : <>[]TaskQueued(w) => []<><<WorkerOnMessage(w)>>_vars
    /\ \A w \in Workers : WF_vars(MainOnMessage(w))
    /\ <>[]AllSettled => []<><<HashWorkersResume>>_vars

----------------------------------------------------------------------------
(* The unified API (src/index.ts): init() and terminateWorkers() calls.    *)
(* call is the last call that completed; inits are the init() calls, which  *)
(* may overlap at the await of line 70.                                     *)

\* init() called without numWorkers
Undefined == -1

\* the numWorkers arguments of init
CountArgs == {Undefined} \cup (0..MaxWorkers)

NoApiCall == [fn |-> "none", numWorkers |-> 0]

IdleApiInit == [pc |-> "idle", numWorkers |-> 0]

\* isWorkersAvailable (blake3-workers.ts:310-312): typeof Worker !== 'undefined'
isWorkersAvailable == env.worker

\* getWorkerCount (blake3-workers.ts:317-319)
getWorkerCount == numWorkers

\* getBackendInfo (src/index.ts:83-112): the available field of each backend whose
\* module is modelled
getBackendInfo ==
    [js |-> [available |-> TRUE],
     workers |-> [available |-> workersInitialized /\ getWorkerCount > 0],
     auto |-> [available |-> TRUE]]

InitUnified ==
    \E simd \in BOOLEAN, worker \in BOOLEAN :
        /\ pc = "ready"
        /\ call = NoApiCall
        /\ IS_LITTLE_ENDIAN = TRUE
        /\ simdSupported = simd
        /\ wasmInstance = FALSE
        /\ compress4x = FALSE
        /\ blockWordsBuffer = ZeroBlock
        /\ calls = << >>
        /\ tree = NoTree
        /\ result = << >>
        /\ error = ""
        /\ PoolInit
        /\ scratchBefore = ZeroBlock
        /\ auto = [backend |-> "js", wasmModule |-> FALSE, initialized |-> FALSE]
        /\ wasmPkg = [wasm |-> FALSE, initialized |-> FALSE, threadCount |-> 0]
        /\ inits = [i \in 1..MaxInits |-> IdleApiInit]
        /\ env = [worker |-> worker, hardwareConcurrency |-> 2]
        /\ lastBlake3 = NoDispatch
        /\ wasmInitialized = FALSE
        /\ workersInitialized = FALSE

UnifiedUnchanged ==
    UNCHANGED <<pc, IS_LITTLE_ENDIAN, simdSupported, wasmInstance, compress4x,
                blockWordsBuffer, calls, tree, result, error, promises, arrivals,
                scratchBefore, auto, wasmPkg, env, lastBlake3>>

\* initWorkers(count) (blake3-workers.ts:270-289)
initWorkers(count) ==
    LET targetCount == IF count = Undefined THEN env.hardwareConcurrency ELSE count
    IN IF workers = targetCount
       THEN UNCHANGED <<workers, numWorkers, inbox, outbox, onmessage>>
       ELSE /\ workers' = targetCount
            /\ numWorkers' = targetCount
            /\ inbox' = [w \in Workers |-> << >>]
            /\ outbox' = [w \in Workers |-> << >>]
            /\ onmessage' = [w \in Workers |-> 0]

\* init from line 74 to its end: the workers, and the call is complete
initWorkersPart(i, n) ==
    /\ IF ~workersInitialized /\ isWorkersAvailable
       THEN /\ initWorkers(n)
            /\ workersInitialized' = TRUE
       ELSE UNCHANGED <<workers, numWorkers, inbox, outbox, onmessage, workersInitialized>>
    /\ inits' = [inits EXCEPT ![i] = [pc |-> "done", numWorkers |-> n]]
    /\ call' = [fn |-> "init", numWorkers |-> n]

\* init(numWorkers) (src/index.ts:67-78) up to its await of initWasmSimd (line 70),
\* or to its end when the WASM backend is initialized already
ApiInit(i) ==
    /\ inits[i].pc \in {"idle", "done"}
    /\ \E n \in CountArgs :
          IF ~wasmInitialized
          THEN /\ inits' = [inits EXCEPT ![i] = [pc |-> "awaitingWasm", numWorkers |-> n]]
               /\ UNCHANGED <<call, workers, numWorkers, inbox, outbox, onmessage,
                              workersInitialized>>
          ELSE initWorkersPart(i, n)
    /\ UNCHANGED wasmInitialized
    /\ UnifiedUnchanged

\* init after the await of line 70: initWasmSimd has answered whether the host
\* validates the SIMD module
ApiInitResume(i) ==
    /\ inits[i].pc = "awaitingWasm"
    /\ wasmInitialized' = simdSupported
    /\ initWorkersPart(i, inits[i].numWorkers)
    /\ UnifiedUnchanged

\* terminateWorkers() (blake3-workers.ts:294-305), re-exported by src/index.ts:383
ApiTerminateWorkers ==
    /\ workers' = 0
    /\ numWorkers' = 0
    /\ inbox' = [w \in Workers |-> << >>]
    /\ outbox' = [w \in Workers |-> << >>]
    /\ onmessage' = [w \in Workers |-> 0]
    /\ call' = [fn |-> "terminateWorkers", numWorkers |-> 0]
    /\ UNCHANGED <<inits, wasmInitialized, workersInitialized>>
    /\ UnifiedUnchanged

NextUnified ==
    \/ \E i \in 1..MaxInits : ApiInit(i)
    \/ \E i \in 1..MaxInits : ApiInitResume(i)
    \/ ApiTerminateWorkers

SpecUnified == InitUnified /\ [][NextUnified]_vars

----------------------------------------------------------------------------
(* @rotko/blake3-wasm called directly (src/packages/blake3-wasm/src/index.js): *)
(* init() calls that may overlap at each await, and blake3 / blake3Parallel.   *)
(* calls is the log of the calls made into the generated glue; env.pool is     *)
(* the thread pool of the WASM instance (0: none), which the first             *)
(* initThreadPool to resolve creates.                                          *)

\* the threads argument of init (0: not given)
ThreadArgs == {0, 2, 3}

IdleWasmInit == [pc |-> "idle", threads |-> 0]

NoWasmCall == [fn |-> "none", threw |-> FALSE, target |-> "", initCompleted |-> FALSE]

InitWasmPkg ==
    \E sab \in BOOLEAN :
        /\ pc = "ready"
        /\ call = Call("blake3", NoBytes, 32, NoBytes, NoBytes)
        /\ IS_LITTLE_ENDIAN = TRUE
        /\ simdSupported = FALSE
        /\ wasmInstance = FALSE
        /\ compress4x = FALSE
        /\ blockWordsBuffer = ZeroBlock
        /\ calls = << >>
        /\ tree = NoTree
        /\ result = << >>
        /\ error = ""
        /\ PoolInit
        /\ scratchBefore = ZeroBlock
        /\ auto = [backend |-> "js", wasmModule |-> FALSE, initialized |-> FALSE]
        /\ wasmPkg = [wasm |-> FALSE, initialized |-> FALSE, threadCount |-> 0]
        /\ inits = [i \in 1..MaxInits |-> IdleWasmInit]
        /\ env = [load |-> "ok", sab |-> sab, hardwareConcurrency |-> 4, pool |-> 0]
        /\ lastBlake3 = NoWasmCall
        /\ wasmInitialized = FALSE
        /\ workersInitialized = FALSE

WasmPkgUnchanged ==
    UNCHANGED <<pc, call, IS_LITTLE_ENDIAN, simdSupported, wasmInstance, compress4x,
                blockWordsBuffer, tree, result, error, poolVars, scratchBefore, auto,
                apiVars>>

\* getThreadCount (lines 95-97)
getThreadCount == wasmPkg.threadCount

\* init(threads) up to its first await (lines 16-19): the early return, or the
\* import of the glue is started
WasmInit(i) ==
    /\ inits[i].pc = "idle"
    /\ \E t \in ThreadArgs :
         inits' = [inits EXCEPT ![i] =
                      [pc |-> IF wasmPkg.initialized THEN "done" ELSE "wasmImport",
                       threads |-> t]]
    /\ UNCHANGED <<calls, wasmPkg, env, lastBlake3>>
    /\ WasmPkgUnchanged

\* init after await import('./wasm/blake3_wasm.js') (lines 19-20): module.default()
\* is called, which loads the WASM module
WasmInitDefault(i) ==
    /\ inits[i].pc = "wasmImport"
    /\ calls' = Append(calls, [fn |-> "module.default", by |-> i, threads |-> 0])
    /\ inits' = [inits EXCEPT ![i].pc = "instantiate"]
    /\ UNCHANGED <<wasmPkg, env, lastBlake3>>
    /\ WasmPkgUnchanged

\* init after await module.default() (lines 20-28 and 36): wasm = module, then
\* wasm.initThreadPool(numThreads) is called if SharedArrayBuffer exists
WasmInitThreadPool(i) ==
    /\ inits[i].pc = "instantiate"
    /\ IF env.sab
       THEN /\ calls' = Append(calls, [fn |-> "initThreadPool", by |-> i,
                                       threads |-> numThreadsOf(inits[i].threads)])
            /\ inits' = [inits EXCEPT ![i].pc = "threadPool"]
            /\ wasmPkg' = [wasmPkg EXCEPT !.wasm = TRUE]
       ELSE /\ inits' = [inits EXCEPT ![i].pc = "done"]
            /\ wasmPkg' = [wasmPkg EXCEPT !.wasm = TRUE, !.initialized = TRUE]
            /\ UNCHANGED calls
    /\ UNCHANGED <<env, lastBlake3>>
    /\ WasmPkgUnchanged

\* init after await wasm.initThreadPool(numThreads) (lines 28-36): resolved, and
\* threadCount = wasm.get_thread_count(); or rejected, and threadCount = 0
WasmInitSettled(i) ==
    /\ inits[i].pc = "threadPool"
    /\ \E ok \in BOOLEAN :
         IF ok
         THEN LET pool == IF env.pool = 0 THEN numThreadsOf(inits[i].threads)
                          ELSE env.pool
              IN /\ env' = [env EXCEPT !.pool = pool]
                 /\ wasmPkg' = [wasmPkg EXCEPT !.threadCount = pool,
                                               !.initialized = TRUE]
         ELSE /\ wasmPkg' = [wasmPkg EXCEPT !.threadCount = 0, !.initialized = TRUE]
              /\ UNCHANGED env
    /\ inits' = [inits EXCEPT ![i].pc = "done"]
    /\ UNCHANGED <<calls, lastBlake3>>
    /\ WasmPkgUnchanged

\* blake3(input) (lines 45-55) and blake3Parallel(input) (lines 64-77): the throw,
\* or the function of the glue that is called
WasmBlake3 ==
    /\ \E fn \in {"blake3", "blake3Parallel"} :
         lastBlake3' =
            [fn |-> fn,
             threw |-> ~wasmPkg.initialized,
             target |-> IF ~wasmPkg.initialized THEN ""
                        ELSE IF fn = "blake3Parallel" /\ wasmPkg.threadCount > 0
                        THEN "wasm.hash_rayon"
                        ELSE "wasm.hash",
             initCompleted |-> \E i \in 1..MaxInits : inits[i].pc = "done"]
    /\ UNCHANGED <<calls, wasmPkg, inits, env>>
    /\ WasmPkgUnchanged

NextWasmPkg ==
    \/ \E i \in 1..MaxInits : WasmInit(i)
    \/ \E i \in 1..MaxInits : WasmInitDefault(i)
    \/ \E i \in 1..MaxInits : WasmInitThreadPool(i)
    \/ \E i \in 1..MaxInits : WasmInitSettled(i)
    \/ WasmBlake3

SpecWasmPkg == InitWasmPkg /\ [][NextWasmPkg]_vars
----------------------------------------------------------------------------
(* Properties of the calls *)

Done(fn) == pc = "done" /\ call.fn = fn

\* the positions in calls of the compress calls that carry ROOT
RootCalls == {i \in 1..Len(calls) : HasFlag(calls[i].flags, ROOT)}

\* exactly one compress call has ROOT and it is the last one
RootOnceAndLast == Len(calls) >= 1 /\ RootCalls = {Len(calls)}

\* C1: in every run of hash, for every input length, exactly one compress call
\* has the ROOT flag set and that call is the last compress call of the run.
C1_HashRootOnceLast == Done("hash") => RootOnceAndLast

\* a run of hash over four full chunks: 64 chunk blocks, two eager parents and
\* the root parent, which is the only call with ROOT
C1_Witness ==
    /\ Done("hash")
    /\ call.input.len = 4 * CHUNK_LEN
    /\ Len(calls) = 67
    /\ RootCalls = {67}
    /\ calls[67].site = "parent"

\* C2: in every run of keyedHash with a 32-byte key, for every input length,
\* exactly one compress call carries ROOT and it is the last compress call of the
\* run, also when the number of chunks is a power of two.
C2_KeyedRootOnceLast ==
    (Done("keyedHash") /\ call.key.len = 32) => RootOnceAndLast

\* the digests of the table, as bytes
\* af1349b9f5f9a1a6a0404dea36dcc9499bcb25c9adc112b7cc9a93cae41f3262
Digest0 ==
    << 175, 19, 73, 185, 245, 249, 161, 166, 160, 64, 77, 234, 54, 220, 201, 73,
       155, 203, 37, 201, 173, 193, 18, 183, 204, 154, 147, 202, 228, 31, 50, 98 >>

\* 2d3adedff11b61f14c886e35afa036736dcd87a74d27b5c1510225d0f592e213
Digest1 ==
    << 45, 58, 222, 223, 241, 27, 97, 241, 76, 136, 110, 53, 175, 160, 54, 115,
       109, 205, 135, 167, 77, 39, 181, 193, 81, 2, 37, 208, 245, 146, 226, 19 >>

\* 4eed7141ea4a5cd4b788606bd23f46e212af9cacebacdc7d1f4c6dc7f2511b98
Digest64 ==
    << 78, 237, 113, 65, 234, 74, 92, 212, 183, 136, 96, 107, 210, 63, 70, 226,
       18, 175, 156, 172, 235, 172, 220, 125, 31, 76, 109, 199, 242, 81, 27, 152 >>

\* 42214739f095a406f3fc83deb889744ac00df831c10daa55189b5d121c855af7
Digest1024 ==
    << 66, 33, 71, 57, 240, 149, 164, 6, 243, 252, 131, 222, 184, 137, 116, 74,
       192, 13, 248, 49, 193, 13, 170, 85, 24, 155, 93, 18, 28, 133, 90, 247 >>

\* d00278ae47eb27b34faecf67b4fe263f82d5412916c1ffd97c8cb7fb814b8444
Digest1025 ==
    << 208, 2, 120, 174, 71, 235, 39, 179, 79, 174, 207, 103, 180, 254, 38, 63,
       130, 213, 65, 41, 22, 193, 255, 217, 124, 140, 183, 251, 129, 75, 132, 68 >>

\* de1e5fa0be70df6d2be8fffd0e99ceaa8eb6e8c93a63f2d8d1c30ecb6b263dee
TableDigest65536 ==
    << 222, 30, 95, 160, 190, 112, 223, 109, 43, 232, 255, 253, 14, 153, 206, 170,
       142, 182, 232, 201, 58, 99, 242, 216, 209, 195, 14, 203, 107, 38, 61, 238 >>

\* 68d647e619a930e7b1082f74f334b0c65a315725569bdc123f0ee11881717bfe
Digest65536 ==
    << 104, 214, 71, 230, 25, 169, 48, 231, 177, 8, 47, 116, 243, 52, 176, 198,
       90, 49, 87, 37, 86, 155, 220, 18, 63, 14, 225, 24, 129, 113, 123, 254 >>

\* a call hash(input) with input = [i mod 251 for i in 0..len) and 32 bytes asked
VectorCall(len) ==
    /\ Done("hash")
    /\ call.input.pat = 0
    /\ call.input.len = len
    /\ call.outputLen = 32

VectorsUpTo1025 ==
    /\ VectorCall(0) => result = Digest0
    /\ VectorCall(1) => result = Digest1
    /\ VectorCall(BLOCK_LEN) => result = Digest64
    /\ VectorCall(CHUNK_LEN) => result = Digest1024
    /\ VectorCall(CHUNK_LEN + 1) => result = Digest1025

\* C3 as stated: for the input [i mod 251 for i in 0..len) and a 32-byte output,
\* hash returns the digest the table lists, for len in {0, 1, 64, 1024, 1025, 65536}.
C3_TableVectors ==
    /\ VectorsUpTo1025
    /\ VectorCall(BenchLen) => result = TableDigest65536

\* C3, amended: hash returns the table's digests for len in {0, 1, 64, 1024, 1025};
\* for len = 65536 it returns 68d647e6...81717bfe, not the digest of the table.
C3_Vectors ==
    /\ VectorsUpTo1025
    /\ VectorCall(BenchLen) => result = Digest65536

C3_Witness ==
    /\ VectorCall(BenchLen)
    /\ result = Digest65536
    /\ result # TableDigest65536
    /\ Len(calls) = 64 * 16 + 63

\* what hash returns for the input of the call when 64 bytes are asked
Hash64 == hash(call.input, 64, StartState(ZeroBlock)).out

\* C4: for every input X and every output length L in 1..64, hash(X, L) equals
\* the first L bytes of hash(X, 64).
C4_PrefixOfHash64 ==
    (Done("hash") /\ call.outputLen \in 1..64) =>
        result = SubSeq(Hash64, 1, call.outputLen)

\* 33 bytes asked of a two-chunk input: the 32 bytes of the root CV and a zero byte,
\* as in the first 33 bytes of the 64-byte answer
C4_Witness ==
    /\ Done("hash")
    /\ call.input.len = CHUNK_LEN + 1
    /\ call.outputLen = 33
    /\ Len(result) = 33
    /\ result[32] # 0
    /\ result[33] = 0
    /\ result = SubSeq(Hash64, 1, 33)

\* C5: hash, keyedHash and deriveKey report a validation failure, and return no
\* bytes, when the output length asked is 0 or above 32.
C5_RejectsUnsupportedLen ==
    (/\ pc = "done"
     /\ call.fn \in {"hash", "keyedHash", "deriveKey"}
     /\ (call.outputLen = 0 \/ call.outputLen > 32))
    => (error # "" /\ result = << >>)

\* C6: keyedHash with a key whose length is not 32 fails before any compression
\* and produces no digest, whatever the input and output length; with a 32-byte
\* key it never fails.
C6_KeyLength ==
    Done("keyedHash") =>
        IF call.key.len # 32
        THEN error # "" /\ calls = << >> /\ result = << >>
        ELSE error = "" /\ Len(result) = call.outputLen /\ Len(calls) >= 1

\* a 33-byte key with a two-chunk input: the call throws and nothing was compressed
C6_Witness ==
    /\ Done("keyedHash")
    /\ call.key.len = 33
    /\ call.input.len = CHUNK_LEN + 1
    /\ error = "Key must be 32 bytes"
    /\ calls = << >>
    /\ result = << >>

\* call i is the first block of a chunk: a chunk block that follows nothing,
\* a parent, or the final block of the chunk before
ChunkFirst(i) ==
    /\ calls[i].site = "chunk"
    /\ \/ i = 1
       \/ calls[i - 1].site = "parent"
       \/ HasFlag(calls[i - 1].flags, CHUNK_END)

\* C7: in every run of keyedHash every compress call has the KEYED_HASH bit,
\* every chunk starts from the 8 little-endian key words as its CV, and every
\* parent compression has the key words as CV, counter 0, block length 64 and
\* the PARENT bit.
C7_KeyedCalls ==
    (Done("keyedHash") /\ error = "") =>
        \A i \in 1..Len(calls) :
            /\ HasFlag(calls[i].flags, KEYED_HASH)
            /\ calls[i].site \in {"chunk", "parent"}
            /\ ChunkFirst(i) => calls[i].cv = keyWordsOf(call.key)
            /\ calls[i].site = "parent" =>
                  /\ calls[i].cv = keyWordsOf(call.key)
                  /\ calls[i].counter = 0
                  /\ calls[i].blockLen = 64
                  /\ HasFlag(calls[i].flags, PARENT)

\* a keyed run over three chunks: chunk 1 (calls 17..32) starts from the key words,
\* and call 33, the parent of chunks 0 and 1, has the key words and not IV as CV
C7_Witness ==
    /\ Done("keyedHash")
    /\ call.input.len = 2 * CHUNK_LEN + 1
    /\ call.key = Key32
    /\ Len(calls) = 35
    /\ ChunkFirst(17)
    /\ calls[17].cv = keyWordsOf(Key32)
    /\ calls[17].counter = 1
    /\ calls[33].site = "parent"
    /\ calls[33].cv = keyWordsOf(Key32)
    /\ calls[33].cv # IV
    /\ calls[33].flags = KEYED_HASH + PARENT

IsContextCall(c) == c.site = "context"

IsMaterialCall(c) == c.site = "material"

\* the compress calls hash makes on the bytes b
HashCallsOn(b) == hash(b, 32, StartState(ZeroBlock)).st.calls

\* run is the sequence of compressions ref (a run of hash) with cv0 in the place of
\* IV as the initial CV and modeFlag OR'd into every flag: the same counters, block
\* lengths and flags, and the same message words in the chunk blocks
SameCompressions(run, ref, modeFlag, cv0) ==
    /\ Len(run) = Len(ref)
    /\ \A i \in 1..Len(ref) :
          /\ i <= Len(run)
          /\ run[i].counter = ref[i].counter
          /\ run[i].blockLen = ref[i].blockLen
          /\ run[i].flags = FlagOr(ref[i].flags, modeFlag)
          /\ ref[i].site = "chunk" => run[i].m = ref[i].m
          /\ ref[i].cv = IV => run[i].cv = cv0

\* the CV a compress call returned
OutputOf(c) == compress(c.cv, c.m, c.counter, c.blockLen, c.flags)

\* the CV the context run of deriveKey ended with
ContextCv ==
    LET ctx == SelectSeq(calls, IsContextCall)
    IN OutputOf(ctx[Len(ctx)])

\* C8: for every key-material length, deriveKey performs on the key material the
\* compressions hash performs on that input, with the context CV as initial CV and
\* DERIVE_KEY_MATERIAL in every flag: chunks of at most 1024 bytes with counters
\* 0, 1, 2, ..., merged by PARENT compressions.
C8_MaterialLikeHash ==
    Done("deriveKey") =>
        SameCompressions(SelectSeq(calls, IsMaterialCall), HashCallsOn(call.input),
                         DERIVE_KEY_MATERIAL, ContextCv)

\* C9: deriveKey hashes the context of any byte length in a run of its own whose
\* every compression carries DERIVE_KEY_CONTEXT and whose root CV is the initial
\* CV of the material run; a context above 1024 bytes is split into 1024-byte
\* chunks with increasing counters, combined by PARENT compressions.
C9_ContextFullTree ==
    Done("deriveKey") =>
        /\ SameCompressions(SelectSeq(calls, IsContextCall), HashCallsOn(call.context),
                            DERIVE_KEY_CONTEXT, IV)
        /\ SelectSeq(calls, IsMaterialCall)[1].cv = ContextCv

\* C10: for every input, hashWasmSimd and the synchronous hash of the workers
\* module return the 32-byte digest that hash of src/blake3.ts returns.
C10_BackendsAgree ==
    (/\ pc = "done"
     /\ call.fn \in {"hashWasmSimd", "hashWorkersSync"}
     /\ call.outputLen = 32)
    => result = hash(call.input, 32, StartState(ZeroBlock)).out


----------------------------------------------------------------------------
(* Properties of the worker pool *)

\* C11: a hashWorkers call on a pool of at least one worker and an input of more
\* than 1024 bytes resolves to the digest hash returns for the same input, for
\* every pool size, every partition of the chunks and every order of the replies.
C11_WorkersDigest ==
    (Done("hashWorkers") /\ workers >= 1 /\ call.input.len > CHUNK_LEN)
        => /\ error = ""
           /\ result = hash(call.input, call.outputLen, StartState(ZeroBlock)).out

\* five chunks on three workers (ranges 0-1, 2-3 and 4), the reply of the last
\* range delivered first and that of the first range last
C11_Witness ==
    /\ Done("hashWorkers")
    /\ workers = 3
    /\ call.input.len = 4 * CHUNK_LEN + 1
    /\ arrivals = <<3, 2, 1>>
    /\ Len(promises) = 3
    /\ Len(result) = 32

\* what the pending call returns when blockWordsBuffer is all zero, as it is after
\* the module is loaded
FreshRun ==
    CASE call.fn = "hash" ->
           hash(call.input, call.outputLen, StartState(ZeroBlock))
      [] call.fn = "keyedHash" ->
           keyedHash(call.key, call.input, call.outputLen, StartState(ZeroBlock))
      [] call.fn = "deriveKey" ->
           deriveKey(call.context, call.input, call.outputLen, StartState(ZeroBlock))

\* C12: after any sequence of earlier hash, keyedHash and deriveKey calls, a call
\* returns (or throws) what it does on a freshly loaded module: the result does
\* not depend on what blockWordsBuffer held before the call.
C12_NoFlowThroughScratch ==
    pc = "done" => (result = FreshRun.out /\ error = FreshRun.error)

\* the hash of one byte returned after a call that left a block of non-zero words
\* in blockWordsBuffer
C12_Witness ==
    /\ Done("hash")
    /\ call.input.len = 1
    /\ \A w \in 9..16 : scratchBefore[w] # 0
    /\ Len(result) = 32
    /\ blockWordsBuffer[2] = 0

----------------------------------------------------------------------------
(* Properties of the 4-way kernel *)

\* the scalar compress on the inputs of lane k of the call
ScalarLane(k) ==
    compress(call.cvs[k], call.messages[k], call.counters[k], call.blockLens[k],
             call.flags[k])

SameLanes(a) == a[1] = a[2] /\ a[2] = a[3] /\ a[3] = a[4]

----------------------------------------------------------------------------
(* Properties of @rotko/blake3-auto *)

\* the backend an init() call that has returned must have selected: the one
\* selected before it if the package was initialised when it was made, 'js' if
\* forceJS was given or the WASM package failed to load, otherwise 'wasm-rayon'
\* or 'wasm' by the thread count the WASM package reported
SelectedBy(c) ==
    CASE c.outcome = "initialized" -> c.backendAtCall
      [] c.forceJS -> "js"
      [] env.load # "ok" -> "js"
      [] c.threadCount > 0 -> "wasm-rayon"
      [] OTHER -> "wasm"

\* the function a blake3() call made in a given state of the package must call
TargetOf(d) ==
    CASE ~d.initialized -> "blake3JS"
      [] d.backend = "wasm-rayon" -> "wasmModule.blake3Parallel"
      [] d.backend = "wasm" -> "wasmModule.blake3"
      [] OTHER -> "blake3JS"

\* C14: an init() call of blake3-auto that has completed returned 'wasm-rayon' if
\* the WASM package initialised with a thread count above 0, 'wasm' if with zero
\* threads, 'js' if loading failed or forceJS was given; an init() call made once
\* the package is initialised returns the backend already selected and does not
\* change it; blake3() calls the function of the selected backend, and the pure-JS
\* one before initialisation.
C14_BackendSelection ==
    /\ \A i \in 1..MaxInits :
          inits[i].pc = "done" =>
             /\ inits[i].returned = SelectedBy(inits[i])
             /\ inits[i].returned \in {"js", "wasm", "wasm-rayon"}
             /\ inits[i].outcome = "loaded" => (env.load = "ok" /\ ~inits[i].forceJS)
    /\ (\A i \in 1..MaxInits : inits[i].pc \in {"idle", "done"})
          => (auto.initialized = (\E i \in 1..MaxInits : inits[i].pc = "done"))
    /\ lastBlake3.target # "" => lastBlake3.target = TargetOf(lastBlake3)

\* the first init() has selected 'wasm-rayon' with a pool of two threads, a later
\* init({forceJS: true}) has returned 'wasm-rayon' too, and blake3() has called
\* blake3Parallel
C14_Witness ==
    /\ inits[1].pc = "done" /\ inits[1].outcome = "loaded" /\ inits[1].threadCount = 2
    /\ inits[1].returned = "wasm-rayon"
    /\ inits[2].pc = "done" /\ inits[2].outcome = "initialized" /\ inits[2].forceJS
    /\ inits[2].returned = "wasm-rayon"
    /\ auto.backend = "wasm-rayon"
    /\ lastBlake3.target = "wasmModule.blake3Parallel"
----------------------------------------------------------------------------
(* The subtree stack of hash.                                              *)

Span(first, count) == [first |-> first, count |-> count]

\* the stack that spells N in binary, bottom to top: for each set bit k of N, from
\* bit maxBit down, one subtree of 2^k chunks, the subtrees lying side by side
\* from chunk `first` on
RECURSIVE binaryStack(_, _, _)
binaryStack(N, maxBit, first) ==
    IF maxBit < 0 THEN << >>
    ELSE IF (N \div 2^maxBit) % 2 = 1
         THEN <<Span(first, 2^maxBit)>>
              \o binaryStack(N, maxBit - 1, first + 2^maxBit)
         ELSE binaryStack(N, maxBit - 1, first)

\* the bit positions an input of the model needs
TopBit == 7

\* const numChunks = Math.ceil(input.length / CHUNK_LEN) of the finished hash call
numChunksOf(c) == CeilDiv(c.input.len, CHUNK_LEN)

MultiChunkHashDone == Done("hash") /\ call.input.len > CHUNK_LEN

\* C15 as stated: at the end of every iteration N = 1..numChunks of hash's chunk
\* loop the subtree stack holds one subtree per set bit of N, of 2^bit chunks, so
\* that heights strictly decrease from bottom to top.  Violated after the last
\* iteration (N = numChunks) whenever the merges of the last chunk are pending.
C15_StackSpellsN ==
    MultiChunkHashDone
    => \A N \in 1..numChunksOf(call) : tree.stackLog[N] = binaryStack(N, TopBit, 0)

\* C15 amended: the stack spells N in binary at the end of every iteration but the
\* last; the last chunk is pushed and not merged, so after iteration numChunks the
\* stack is the one of numChunks - 1 with the last chunk's CV on top.
C15_StackSpellsNBeforeLast ==
    MultiChunkHashDone
    => /\ Len(tree.stackLog) = numChunksOf(call)
       /\ \A N \in 1..(numChunksOf(call) - 1) :
              tree.stackLog[N] = binaryStack(N, TopBit, 0)
       /\ tree.stackLog[numChunksOf(call)]
              = Append(binaryStack(numChunksOf(call) - 1, TopBit, 0),
                       Span(numChunksOf(call) - 1, 1))

\* a 9-chunk input: after chunk 8 one subtree of eight chunks, after chunk 7 three
\* subtrees of 4, 2 and 1 chunks, after the last chunk two entries
C15_Witness ==
    /\ MultiChunkHashDone
    /\ call.input.len = 8 * CHUNK_LEN + 1
    /\ tree.stackLog[7] = <<Span(0, 4), Span(4, 2), Span(6, 1)>>
    /\ tree.stackLog[8] = <<Span(0, 8)>>
    /\ tree.stackLog[9] = <<Span(0, 8), Span(8, 1)>>

----------------------------------------------------------------------------
(* The tree of parent compressions of hash.                                *)

\* the parent compressions among the calls, in order: parentCalls[k] is the
\* compression of merge k
parentCalls == SelectSeq(calls, LAMBDA c : c.site = "parent")

\* the largest power of two strictly smaller than total (total >= 2)
leftShare(total) ==
    CHOOSE p \in {2^k : k \in 0..TopBit} : p < total /\ 2 * p >= total

\* the compression that produced the CV of the subtree over span s: for one
\* chunk the last block of that chunk, otherwise the parent of merge k where
\* merge k joined two subtrees into s
producerOf(s) ==
    IF s.count = 1
    THEN LET blocks == SelectSeq(calls, LAMBDA c : c.site = "chunk" /\ c.counter = s.first)
         IN blocks[Len(blocks)]
    ELSE parentCalls[CHOOSE k \in 1..Len(tree.merges) :
                        /\ tree.merges[k].left.first = s.first
                        /\ tree.merges[k].left.count + tree.merges[k].right.count = s.count]

\* the sides of the merges that took the subtree over span s
consumersOf(s) ==
    {ks \in (1..Len(tree.merges)) \X {"left", "right"} :
        s = IF ks[2] = "left" THEN tree.merges[ks[1]].left ELSE tree.merges[ks[1]].right}

ChildCv(s) == OutputOf(producerOf(s))

\* C16: for N >= 2 chunks hash performs exactly N - 1 parent compressions; each
\* joins two adjacent runs of chunks, the earlier run's CV in words 0..7 of the
\* block and the later run's in words 8..15; the left run is the largest power of
\* two strictly smaller than the parent's total; every chunk CV and every parent
\* CV but the last is taken by exactly one parent, and the last parent covers the
\* chunks 0..N-1.
C16_BinaryTree ==
    MultiChunkHashDone
    => LET N == numChunksOf(call)
           M == tree.merges
       IN /\ Len(M) = N - 1
          /\ Len(parentCalls) = N - 1
          /\ \A k \in 1..Len(M) :
                /\ M[k].right.first = M[k].left.first + M[k].left.count
                /\ M[k].left.count = leftShare(M[k].left.count + M[k].right.count)
                /\ parentCalls[k].m = ChildCv(M[k].left) \o ChildCv(M[k].right)
          /\ \A c \in 0..(N - 1) : Cardinality(consumersOf(Span(c, 1))) = 1
          /\ \A k \in 1..(Len(M) - 1) :
                Cardinality(consumersOf(Span(M[k].left.first,
                                             M[k].left.count + M[k].right.count))) = 1
          /\ M[Len(M)].left.first = 0
          /\ M[Len(M)].left.count + M[Len(M)].right.count = N

\* seven chunks: the last two parents join chunks 4..5 with chunk 6, then chunks
\* 0..3 with chunks 4..6
C16_Witness ==
    /\ MultiChunkHashDone
    /\ call.input.len = 6 * CHUNK_LEN + 1
    /\ Len(parentCalls) = 6
    /\ tree.merges[5] = [left |-> Span(4, 2), right |-> Span(6, 1)]
    /\ tree.merges[6] = [left |-> Span(0, 4), right |-> Span(4, 3)]
    /\ parentCalls[6].m[1] # parentCalls[6].m[9]

----------------------------------------------------------------------------
(* The compressions of hash, block by block.                               *)

\* the compressions of the blocks of chunk c, in order
chunkBlocks(c) == SelectSeq(calls, LAMBDA b : b.site = "chunk" /\ b.counter = c)

\* Math.ceil(len / 1024), and 1 for the empty input
chunkCount(len) == IF len = 0 THEN 1 ELSE CeilDiv(len, CHUNK_LEN)

\* C17: in every chunk hash processes, CHUNK_START is carried by the first block's
\* compression and no other, CHUNK_END by the last block's and no other; no chunk
\* block carries PARENT, and none carries ROOT when the input has several chunks;
\* every parent compression carries PARENT, neither CHUNK_START nor CHUNK_END,
\* counter 0 and block length 64.
C17_FlagsPerBlock ==
    Done("hash")
    => /\ \A c \in 0..(chunkCount(call.input.len) - 1) :
            LET B == chunkBlocks(c)
            IN /\ Len(B) >= 1
               /\ \A i \in 1..Len(B) :
                    /\ HasFlag(B[i].flags, CHUNK_START) <=> (i = 1)
                    /\ HasFlag(B[i].flags, CHUNK_END) <=> (i = Len(B))
                    /\ ~HasFlag(B[i].flags, PARENT)
                    /\ call.input.len > CHUNK_LEN => ~HasFlag(B[i].flags, ROOT)
       /\ \A k \in 1..Len(parentCalls) :
            /\ HasFlag(parentCalls[k].flags, PARENT)
            /\ ~HasFlag(parentCalls[k].flags, CHUNK_START)
            /\ ~HasFlag(parentCalls[k].flags, CHUNK_END)
            /\ parentCalls[k].counter = 0
            /\ parentCalls[k].blockLen = BLOCK_LEN

\* two full chunks and one byte: sixteen blocks in chunk 0, one block with both
\* flags in chunk 2, two parents
C17_Witness ==
    /\ Done("hash")
    /\ call.input.len = 2 * CHUNK_LEN + 1
    /\ Len(chunkBlocks(0)) = 16
    /\ chunkBlocks(0)[1].flags = CHUNK_START
    /\ chunkBlocks(0)[2].flags = 0
    /\ chunkBlocks(0)[16].flags = CHUNK_END
    /\ chunkBlocks(2)[1].flags = FlagOr(CHUNK_START, CHUNK_END)
    /\ Len(parentCalls) = 2
    /\ parentCalls[1].flags = PARENT
    /\ parentCalls[2].flags = FlagOr(PARENT, ROOT)

\* the compressions of chunk blocks among the calls, in order
chunkCalls == SelectSeq(calls, LAMBDA b : b.site = "chunk")

\* the bytes of chunk c of an input of len bytes: from 1024c up to min(1024(c+1), len)
chunkLenOf(c, len) == Min(CHUNK_LEN * (c + 1), len) - CHUNK_LEN * c

\* what C18 says of a finished hash call, with blocksOf(chunkLen) the number of
\* blocks a chunk of chunkLen bytes is to have
ChunkSplit(blocksOf(_)) ==
    LET len == call.input.len
        N == chunkCount(len)
    IN /\ {chunkCalls[i].counter : i \in 1..Len(chunkCalls)} = 0..(N - 1)
       /\ chunkCalls[1].counter = 0
       /\ \A i \in 1..(Len(chunkCalls) - 1) :
              chunkCalls[i].counter <= chunkCalls[i + 1].counter
       /\ \A c \in 0..(N - 1) :
            LET B == chunkBlocks(c)
                n == blocksOf(chunkLenOf(c, len))
            IN /\ Len(B) = n
               /\ n <= 16
               /\ \A i \in 1..Len(B) :
                    /\ B[i].blockLen =
                         IF c = N - 1 /\ i = n THEN chunkLenOf(c, len) - BLOCK_LEN * (n - 1)
                         ELSE BLOCK_LEN
                    /\ B[i].m = readBlock(call.input, CHUNK_LEN * c + BLOCK_LEN * (i - 1),
                                          B[i].blockLen, ZeroBlock)

\* ceil(chunk_len / 64)
blocksCeil(chunkLen) == CeilDiv(chunkLen, BLOCK_LEN)

\* max(1, ceil(chunk_len / 64))
blocksCeilOrOne(chunkLen) == IF chunkLen = 0 THEN 1 ELSE CeilDiv(chunkLen, BLOCK_LEN)

\* C18 as stated: hash splits an input of len bytes into max(1, ceil(len/1024))
\* chunks, chunk c being the bytes [1024c, min(1024(c+1), len)); chunks are
\* compressed in increasing counter order from 0, every block of chunk c with
\* counter c; a chunk has ceil(chunk_len/64) blocks, at most 16; every block has
\* length 64 but possibly the last block of the last chunk, whose length is the
\* bytes that remain.  Violated by the empty input, whose chunk has one block.
C18_ChunkSplit == Done("hash") => ChunkSplit(blocksCeil)

\* C18 amended: the same with max(1, ceil(chunk_len/64)) blocks per chunk, the
\* chunk of the empty input having one block of length 0.
C18_ChunkSplitOneBlockAtLeast == Done("hash") => ChunkSplit(blocksCeilOrOne)

\* three full chunks and one byte: 49 chunk blocks, the last of length 1 with
\* counter 3
C18_Witness ==
    /\ Done("hash")
    /\ call.input.len = 3 * CHUNK_LEN + 1
    /\ Len(chunkCalls) = 49
    /\ chunkCalls[48].counter = 2 /\ chunkCalls[48].blockLen = BLOCK_LEN
    /\ chunkCalls[49].counter = 3 /\ chunkCalls[49].blockLen = 1

----------------------------------------------------------------------------
(* The empty input.                                                        *)

StartEndRoot == FlagOr(FlagOr(CHUNK_START, CHUNK_END), ROOT)

\* the one compression of an empty input: a zero block of length 0, counter 0
EmptyBlockCall(c, cv, modeFlag) ==
    /\ c.cv = cv
    /\ c.m = ZeroBlock
    /\ c.counter = 0
    /\ c.blockLen = 0
    /\ c.flags = FlagOr(modeFlag, StartEndRoot)

\* the compressions of deriveKey's second step, over the key material
materialCalls == SelectSeq(calls, LAMBDA c : c.site = "material")

contextCalls == SelectSeq(calls, LAMBDA c : c.site = "context")

\* C19: for an empty input hash makes exactly one compression, of an all-zero
\* block with block length 0, counter 0, CV = IV and flags CHUNK_START |
\* CHUNK_END | ROOT; keyedHash does the same with the key words as CV and
\* KEYED_HASH added, and deriveKey's run over an empty key material with the
\* context's CV and DERIVE_KEY_MATERIAL added.
C19_EmptyInputOneBlock ==
    (pc = "done" /\ call.input.len = 0 /\ error = "")
    => /\ call.fn = "hash"
            => Len(calls) = 1 /\ EmptyBlockCall(calls[1], IV, 0)
       /\ call.fn = "keyedHash"
            => Len(calls) = 1 /\ EmptyBlockCall(calls[1], keyWordsOf(call.key), KEYED_HASH)
       /\ call.fn = "deriveKey"
            => /\ Len(materialCalls) = 1
               /\ Len(contextCalls) >= 1
               /\ Len(calls) = Len(contextCalls) + 1
               /\ EmptyBlockCall(materialCalls[1],
                                 OutputOf(contextCalls[Len(contextCalls)]),
                                 DERIVE_KEY_MATERIAL)

\* deriveKey with a 47-byte context and no key material: one context block, then
\* the one material block
C19_Witness ==
    /\ Done("deriveKey")
    /\ call.input.len = 0
    /\ call.context.len = 47
    /\ Len(calls) = 2
    /\ calls[2].site = "material"
    /\ calls[2].flags = 75
    /\ calls[2].cv # IV
    /\ Len(result) = 32

----------------------------------------------------------------------------
(* Compress-1x as the specification gives it, on words kept as two 16-bit  *)
(* halves <<high, low>> of an unsigned 32-bit number.                      *)

\* the unsigned halves of the 32-bit word that the signed number x stands for
Halves(x) ==
    IF x >= 0 THEN << x \div 65536, x % 65536 >>
    ELSE << (((x + 2147483647) + 1) \div 65536) + 32768, ((x + 2147483647) + 1) % 65536 >>

\* addition modulo 2^32
RefAdd(a, b) ==
    << (a[1] + b[1] + ((a[2] + b[2]) \div 65536)) % 65536, (a[2] + b[2]) % 65536 >>

\* exclusive or of two numbers of n bits, bit by bit
RECURSIVE RefXorBits(_, _, _)
RefXorBits(a, b, n) ==
    IF n = 0 THEN 0
    ELSE ((a + b) % 2) + 2 * RefXorBits(a \div 2, b \div 2, n - 1)

RefXor(a, b) == << RefXorBits(a[1], b[1], 16), RefXorBits(a[2], b[2], 16) >>

\* rotation to the right by n bits, 0 < n <= 16
RefRotr(w, n) ==
    IF n = 16 THEN << w[2], w[1] >>
    ELSE << (w[1] \div 2^n) + (w[2] % 2^n) * 2^(16 - n),
            (w[2] \div 2^n) + (w[1] % 2^n) * 2^(16 - n) >>

\* a = a + b + x; d = rotr(d xor a, r1); c = c + d; b = rotr(b xor c, r2), on q = <<a, b, c, d>>
RefHalfA(q, x) == << RefAdd(RefAdd(q[1], q[2]), x), q[2], q[3], q[4] >>
RefHalfD(q, r1) == << q[1], q[2], q[3], RefRotr(RefXor(q[4], q[1]), r1) >>
RefHalfC(q) == << q[1], q[2], RefAdd(q[3], q[4]), q[4] >>
RefHalfB(q, r2) == << q[1], RefRotr(RefXor(q[2], q[3]), r2), q[3], q[4] >>

RefHalf(q, x, r1, r2) == RefHalfB(RefHalfC(RefHalfD(RefHalfA(q, x), r1)), r2)

\* the G function on the state words numbered a, b, c, d (from 0)
RefG(s, a, b, c, d, mx, my) ==
    LET q == RefHalf(RefHalf(<< s[a + 1], s[b + 1], s[c + 1], s[d + 1] >>, mx, 16, 12),
                     my, 8, 7)
    IN [i \in 1..16 |-> IF i = a + 1 THEN q[1] ELSE IF i = b + 1 THEN q[2]
                        ELSE IF i = c + 1 THEN q[3] ELSE IF i = d + 1 THEN q[4]
                        ELSE s[i]]

\* the message permutation sigma
Sigma == << 2, 6, 3, 10, 7, 0, 4, 13, 1, 11, 12, 5, 9, 14, 15, 8 >>

\* sigma applied r times to the identity, at k
RECURSIVE SigmaR(_, _)
SigmaR(r, k) == IF r = 0 THEN k ELSE Sigma[SigmaR(r - 1, k) + 1]

\* the word of m that round r uses in place k
RefMsg(m, r, k) == m[SigmaR(r, k) + 1]

RefColumns(s, m, r) ==
    RefG(RefG(RefG(RefG(s, 0, 4, 8, 12, RefMsg(m, r, 0), RefMsg(m, r, 1)),
                   1, 5, 9, 13, RefMsg(m, r, 2), RefMsg(m, r, 3)),
              2, 6, 10, 14, RefMsg(m, r, 4), RefMsg(m, r, 5)),
         3, 7, 11, 15, RefMsg(m, r, 6), RefMsg(m, r, 7))

RefDiagonals(s, m, r) ==
    RefG(RefG(RefG(RefG(s, 0, 5, 10, 15, RefMsg(m, r, 8), RefMsg(m, r, 9)),
                   1, 6, 11, 12, RefMsg(m, r, 10), RefMsg(m, r, 11)),
              2, 7, 8, 13, RefMsg(m, r, 12), RefMsg(m, r, 13)),
         3, 4, 9, 14, RefMsg(m, r, 14), RefMsg(m, r, 15))

\* rounds r..6
RECURSIVE RefRounds(_, _, _)
RefRounds(s, m, r) ==
    IF r >= 7 \/ Len(s) # 16 THEN s
    ELSE RefRounds(RefDiagonals(RefColumns(s, m, r), m, r), m, r + 1)

\* [CV0..7, IV0..3, counter_lo, counter_hi, block_len, flags]; the counters of
\* this model are below 2^31, so counter_hi is 0
RefState(cv, counter, blockLen, flags) ==
    [i \in 1..8 |-> Halves(cv[i])]
    \o << Halves(IV[1]), Halves(IV[2]), Halves(IV[3]), Halves(IV[4]),
          Halves(counter), << 0, 0 >>, Halves(blockLen), Halves(flags) >>

\* output word i is s_i xor s_(i+8)
RefOutput(s) == [i \in 1..8 |-> RefXor(s[i], s[i + 8])]

Compress1x(cv, m, counter, blockLen, flags) ==
    RefOutput(RefRounds(RefState(cv, counter, blockLen, flags),
                        [i \in 1..16 |-> Halves(m[i])], 0))

\* C20: compress returns what Compress-1x of the specification gives for the
\* same CV, message, counter, block length and flags (counters below 2^31), it
\* returns without an error, and the arrays passed as cv and m, the module
\* constant IV passed by mergeParents among them, hold after the call what they
\* held before.
C20_CompressIsCompress1x ==
    Done("compress")
    => /\ [i \in 1..8 |-> Halves(result[i])]
            = Compress1x(call.before.cv, call.before.m, call.counter, call.blockLen,
                         call.flags)
       /\ error = ""
       /\ call.cv = call.before.cv
       /\ call.m = call.before.m
       /\ call.caller = "mergeParents" => call.cv = IV

\* a parent compression with ROOT: cv is IV, the block is not zero, and the
\* result differs from IV
C20_Witness ==
    /\ Done("compress")
    /\ call.caller = "mergeParents"
    /\ call.flags = FlagOr(PARENT, ROOT)
    /\ call.m[1] # 0
    /\ call.cv = IV
    /\ Len(result) = 8
    /\ result # IV

----------------------------------------------------------------------------
(* The message schedule.                                                   *)

\* the rounds that use the message: 0..6 (after round 6 the loops are over)
InRound(r) == r \in 0..6

\* C21: in every round r in 0..6 and at every schedule position k in 0..15 the
\* message variable compress consumes holds the original message word at index
\* sigma_r(k), sigma applied r times to the identity; msgPerm, the index table of
\* the generated 4-way kernel, names that same index for every r and k.
C21_ScheduleIsSigmaR ==
    call.fn = "compress"
    => /\ InRound(result.round)
          => \A k \in 0..15 : result.m[k + 1] = call.m[SigmaR(result.round, k) + 1]
       /\ InRound(result.genRound)
          => \A k \in 0..15 : result.msgPerm[k + 1] = SigmaR(result.genRound, k)
       /\ (InRound(result.round) /\ result.round = result.genRound)
          => \A k \in 0..15 : result.m[k + 1] = call.m[result.msgPerm[k + 1] + 1]

\* both loops in round 6, on a message of sixteen different words: position 0
\* takes word sigma_6(0) = 11
C21_Witness ==
    /\ call.fn = "compress"
    /\ result.round = 6 /\ result.genRound = 6
    /\ Cardinality({call.m[i] : i \in 1..16}) = 16
    /\ result.msgPerm[1] = 11
    /\ result.m[1] = call.m[12]
    /\ result.m # call.m

----------------------------------------------------------------------------
(* Block loading.                                                          *)

\* byte i of the input as a block of length bytes from offset sees it: zero at
\* and beyond offset + length
PaddedByte(input, offset, length, i) ==
    IF i < offset + length THEN InputByte(input, i) ELSE 0

\* the little-endian value of the four bytes of word w, as unsigned halves
LittleEndianWord(input, offset, length, w) ==
    << PaddedByte(input, offset, length, offset + 4 * w + 3) * 256
         + PaddedByte(input, offset, length, offset + 4 * w + 2),
       PaddedByte(input, offset, length, offset + 4 * w + 1) * 256
         + PaddedByte(input, offset, length, offset + 4 * w) >>

LittleEndianBlock(input, offset, length) ==
    [w \in 1..16 |-> LittleEndianWord(input, offset, length, w - 1)]

\* C22: after readBlock(input, offset, length, out), length <= 64, word w of out
\* is the little-endian value of the input bytes offset+4w .. offset+4w+3 with the
\* bytes at or beyond offset+length taken as zero, whatever out held before; when
\* readBlockFastLE returns true, out holds the sixteen words readBlock would
\* write for that 64-byte block, and when it returns false out is as it was.
C22_LittleEndianZeroPadded ==
    /\ Done("readBlock")
         => [w \in 1..16 |-> Halves(blockWordsBuffer[w])]
              = LittleEndianBlock(call.input, call.offset, call.length)
    /\ (Done("readBlockFastLE") /\ result = << TRUE >>)
         => /\ blockWordsBuffer
                 = readBlock(call.input, call.offset, BLOCK_LEN, scratchBefore)
            /\ [w \in 1..16 |-> Halves(blockWordsBuffer[w])]
                 = LittleEndianBlock(call.input, call.offset, BLOCK_LEN)
    /\ (Done("readBlockFastLE") /\ result = << FALSE >>)
         => blockWordsBuffer = scratchBefore

\* five bytes read at offset 1 into a buffer without a zero word: one whole
\* word, one word of a single byte, fourteen zero words
C22_Witness ==
    /\ Done("readBlock")
    /\ call.length = 5 /\ call.offset = 1 /\ call.input.pat = 1
    /\ \A w \in 1..16 : scratchBefore[w] # 0
    /\ blockWordsBuffer[1] # 0
    /\ blockWordsBuffer[2] = InputByte(call.input, 5)
    /\ \A w \in 3..16 : blockWordsBuffer[w] = 0

----------------------------------------------------------------------------
(* Counters.                                                               *)

\* c mod 2^32 and floor(c / 2^32) of the number with the digits num, as the halves
\* of an unsigned 32-bit word
LowWord(num) == << num[2], num[1] >>
HighWord(num) == << num[4], num[3] >>

\* the counters of the finished call, one per word written
CountersOf(c) == IF c.fn = "compress" THEN << c.counter >> ELSE c.counters

\* C23: for every chunk counter c, those of 2^31 and more and of 2^32 and more
\* among them, the state words compress sets and the lanes compressSimd4x writes
\* are counter_lo = c mod 2^32 and counter_hi = floor(c / 2^32) as unsigned 32-bit
\* patterns; the lanes of compressSimd4x then return what compress returns.
C23_CounterWords ==
    (pc = "done" /\ call.fn \in {"compress", "compressSimd4x"})
    => /\ Len(result.lo) = Len(CountersOf(call))
       /\ \A i \in 1..Len(CountersOf(call)) :
            /\ Halves(result.lo[i]) = LowWord(CountersOf(call)[i])
            /\ Halves(result.hi[i]) = HighWord(CountersOf(call)[i])
       /\ call.fn = "compressSimd4x"
            => \A k \in 1..4 :
                 result.out[k] = compressNum(call.cvs[k], call.messages[k],
                                             call.counters[k], call.blockLens[k],
                                             call.flags[k])

\* compressSimd4x with the counter 2^32 + 2^31 + 5 in lane 0 and 7 in lane 2
C23_Witness ==
    /\ Done("compressSimd4x")
    /\ call.counters[1] = << 5, 32768, 1, 0 >>
    /\ call.counters[3] = << 7, 0, 0, 0 >>
    /\ result.lo[1] < 0
    /\ result.hi = << 1, 1, 0, 1 >>
    /\ result.out[1] # result.out[2]

----------------------------------------------------------------------------
(* hashWasmSimd and the 4-way kernel.                                      *)

\* the chunks that are not part of a batch of four: the last numChunks mod 4
TailChunks(numChunks) == (4 * (numChunks \div 4))..(numChunks - 1)

----------------------------------------------------------------------------
(* The ranges of hashWorkers.                                              *)

\* the hashWorkers call took the multi-chunk branch and has dispatched
Dispatched == call.fn = "hashWorkers" /\ pc \in {"awaiting", "done"} /\ Len(promises) >= 1

\* where the range given to worker w starts: read from its task while the task is
\* queued, from its reply afterwards
rangeStart(w) ==
    IF inbox[w] # << >> THEN Head(inbox[w]).startChunk
    ELSE IF outbox[w] # << >> THEN Head(outbox[w]).startChunk
    ELSE promises[w].startChunk

\* the number of chunks of that range: endChunk - startChunk of the task, the
\* number of CVs of the reply
rangeSize(w) ==
    IF inbox[w] # << >> THEN Head(inbox[w]).endChunk - Head(inbox[w]).startChunk
    ELSE IF outbox[w] # << >> THEN Len(Head(outbox[w]).cvs)
    ELSE Len(promises[w].cvs)

\* the CV of chunk c of the input, computed with counter c
chunkCvOf(input, c) ==
    processChunk(input, c * CHUNK_LEN, chunkLenOf(c, input.len), c, 0,
                 StartState(ZeroBlock)).cv

\* C25: for N >= 2 chunks and a pool of W >= 1 workers the ranges hashWorkers
\* dispatches are non-empty, each starts where the one before ends, the first at
\* 0 and the last ending at N; a worker's reply holds one CV per chunk of its
\* range, in chunk order, each computed with the chunk's own counter; and the
\* CVs fed to the subtree stack are those of the chunks 0..N-1 in order.
C25_RangesCoverOnce ==
    Dispatched
    => /\ workers >= 1
       /\ Len(promises) <= workers
       /\ rangeStart(1) = 0
       /\ \A w \in 1..Len(promises) :
            /\ rangeSize(w) >= 1
            /\ rangeStart(w) + rangeSize(w)
                 = IF w < Len(promises) THEN rangeStart(w + 1) ELSE numChunksOf(call)
       /\ pc = "done"
            => /\ \A k \in 1..Len(promises) : \A j \in 1..Len(promises[k].cvs) :
                     promises[k].cvs[j]
                       = chunkCvOf(call.input, promises[k].startChunk + j - 1)
               /\ Len(flatten(sortByStart(promises))) = numChunksOf(call)
               /\ \A c \in 1..numChunksOf(call) :
                     flatten(sortByStart(promises))[c] = chunkCvOf(call.input, c - 1)
               /\ \A c \in 0..(numChunksOf(call) - 1) :
                     Cardinality(consumersOf(Span(c, 1))) = 1

\* five chunks on three workers, the replies arriving last worker first: ranges
\* of 2, 2 and 1 chunks
C25_Witness ==
    /\ Done("hashWorkers")
    /\ workers = 3
    /\ call.input.len = 4 * CHUNK_LEN + 1
    /\ arrivals = << 3, 2, 1 >>
    /\ promises[2].startChunk = 2 /\ Len(promises[2].cvs) = 2
    /\ promises[3].startChunk = 4 /\ Len(promises[3].cvs) = 1
    /\ promises[3].cvs[1] # promises[2].cvs[1]

\* C26: hashWorkers called while the pool has no workers resolves to the digest
\* hash gives for the same input, whatever the input length.  Violated by every
\* input longer than 1024 bytes: the whole input is compressed as one chunk.
C26_NoWorkersSameDigest ==
    (Done("hashWorkers") /\ workers = 0)
    => /\ error = ""
       /\ result = hash(call.input, call.outputLen, StartState(ZeroBlock)).out

----------------------------------------------------------------------------
(* Two hashWorkers calls in flight.                                        *)

\* C27 (what a call resolves with): of two hashWorkers calls on multi-chunk
\* inputs in flight together on one pool, a call that resolves does so with the
\* digest of its own input.  Violated: the second call replaces the handlers of
\* the workers, so the replies to the first call's tasks settle the promises of
\* the second call.
C27_OwnDigest ==
    \A i \in TwoCalls :
        (pc[i] = "done" /\ call[i].input.len > CHUNK_LEN /\ call[3 - i].input.len > CHUNK_LEN)
        => result[i] = hash(call[i].input, call[i].outputLen, StartState(ZeroBlock)).out


----------------------------------------------------------------------------
(* The pool torn down under a call in flight.                               *)

\* C28 (a call in flight settles): a hashWorkers call that has dispatched its
\* tasks and awaits them comes to its end, resolved or rejected, whatever
\* terminateWorkers and initWorkers do to the pool meanwhile.  Violated: the
\* tasks of a terminated worker are never answered and nothing settles their
\* promises, so the await of line 407 never resumes.
C28_InFlightCallSettles == (pc = "awaiting") ~> (pc = "done")

----------------------------------------------------------------------------
(* The unified API.                                                         *)

\* C29 (the pool after init): where Worker exists, once the last call to have
\* completed is an init() that asked for a positive number of workers, the pool
\* is live (getWorkerCount() > 0 and getBackendInfo() gives the workers backend
\* as available); and getWorkerCount() is the number of live workers in every
\* state.  Violated: after terminateWorkers() workersInitialized is still true,
\* and the next init() does not create the pool again.
C29_PoolLiveAfterInit ==
    /\ (isWorkersAvailable /\ call.fn = "init" /\ call.numWorkers > 0)
       => (getWorkerCount > 0 /\ getBackendInfo.workers.available)
    /\ getWorkerCount = workers

----------------------------------------------------------------------------
(* @rotko/blake3-wasm called directly.                                     *)

\* the calls of fn made into the generated glue
glueCalls(fn) == {k \in DOMAIN calls : calls[k].fn = fn}

\* C30 (overlapping init() calls of blake3-wasm): the WASM module is loaded at
\* most once and initThreadPool is invoked at most once; once every init() has
\* settled, getThreadCount() is the thread count of the pool that exists; and
\* blake3 and blake3Parallel throw until an init() has completed.  Violated: a
\* second init() started before the first has set initialized runs the whole
\* body again.
C30_InitOnce ==
    /\ Cardinality(glueCalls("module.default")) <= 1
    /\ Cardinality(glueCalls("initThreadPool")) <= 1
    /\ (\A i \in 1..MaxInits : inits[i].pc \in {"idle", "done"})
       => getThreadCount = env.pool
    /\ (lastBlake3.fn # "none" /\ ~lastBlake3.initCompleted) => lastBlake3.threw
====
